---- MODULE Spec2Model ----
(***************************************************************************)
(* State-machine model of the salobass Discord bot: the per-guild music    *)
(* queue (MusicService / GuildQueue), the voice transport it plays on, the *)
(* voice-assistant session (VoiceAssistantCommand.on_wake_word_detected    *)
(* with its tts_player and ai_generator tasks) and the process-wide        *)
(* wake-word service.                                                      *)
(*                                                                         *)
(* The bot runs on one asyncio event loop: a coroutine runs atomically     *)
(* from one await to the next, so every action below is one such segment.  *)
(***************************************************************************)
EXTENDS Naturals, Integers, Sequences, FiniteSets, TLC

\* ---------------------------------------------------------------- bounds
MaxSongs == 2        \* Song objects created (each Enqueue creates a fresh one)
MaxQueueLen == 3     \* cap on len(songs) (Previous can grow the list)
MaxPending == 1      \* cap on scheduled, not yet run _play_next coroutines
MaxPlays == 2        \* saturation of the play-start observer counter
MaxTasks == 1        \* cap on _play_song coroutines suspended at the same time
MaxHistory == 2      \* cap on len(history) explored (the program's cap is HistoryCap)
MaxLoops == 3        \* end-of-song continuations followed in a loop mode
FinishedSongs == 15  \* songs enqueued and played to their end, one after the other

MaxHandlers == 2     \* wake-word detections handled (on_wake_word_detected runs)
MaxSentences == 2    \* speech batches the LLM stream yields for one response
MaxGuilds == 2       \* guilds in which the voice assistant is started and stopped
MaxRuns == 2         \* saturation of the per-guild count of handler runs
MaxElapsed == 2      \* seconds since a song's start_time at a get_current_position call
MaxDuration == 1     \* duration_seconds of a song
MaxText == 5         \* characters and words in the text one LLM stream yields
WordLen == 60        \* characters in the word that "w" stands for
MaxUsers == 2        \* users with a conversation
MaxAdds == 12        \* messages added to the conversations, all users together
MaxCached == 102     \* URLs passed to _cache_metadata
MaxUrls == 3         \* URLs looked up with _get_cached_metadata
MaxTicks == 2        \* times the clock advances between calls

\* ------------------------------------------------------- program constants
HistoryCap == 10     \* music_service.py:377
ChatCap == 10        \* chat_logic.py:11
TargetBatchLength == 100    \* ai_service.py:164
CacheCap == 100     \* music_service.py:96
CacheTtl == 3600    \* music_service.py:47

None == 0
SongIds == 1..MaxSongs
LoopModes == {"off", "song", "queue"}

NoSource == [kind |-> "none", id |-> 0]
SongSource(s) == [kind |-> "song", id |-> s]
\* speech sources of the voice assistant: what is spoken, and by which handler
SpeechKinds == {"beep", "apology", "resp"}
SpeechSource(k, h) == [kind |-> k, id |-> h]
Handlers == 1..MaxHandlers
Guilds == 1..MaxGuilds
Users == 1..MaxUsers

VARIABLES
    \* MusicService.queues[guild] (GuildQueue)
    queue_exists,    \* guild_id in self.queues
    songs,           \* GuildQueue.songs
    current_song,    \* GuildQueue.current_song (None = 0)
    is_playing,      \* GuildQueue.is_playing
    is_paused,       \* GuildQueue.is_paused
    start_time,      \* GuildQueue.current_song.start_time is set (not None)
    history,         \* GuildQueue.history
    loop_mode,       \* GuildQueue.loop_mode
    \* coroutines of _play_song suspended in `await self._get_stream_url(song.url)`:
    \* resolving[s] = number of suspended calls whose local `song` is s
    resolving,
    \* _play_next coroutines scheduled by after_playing and not yet run
    pending_next,
    next_id,         \* id of the next Song object to be created
    \* the guild's voice client (discord.VoiceClient)
    vc,              \* "idle" | "playing" | "paused"
    vc_src,          \* the audio source of the current player
    \* observers
    enq_first,       \* first song of the current run of Enqueue calls (0: none)
    enq_clean,       \* only Enqueue calls, all resolving, since enq_first was set
    play_starts,     \* voice_client.play() calls of _play_song since then
    rt_step,         \* position in the PlayNext-then-Previous round trip
    rt_a, rt_b,      \* the two songs of the round trip
    fl_m,            \* len(songs) when playback started on the idle guild (0: not followed)
    fl_n,            \* stream resolutions that have failed since then
    lp_orig,         \* songs when the first followed song ended in a loop mode (<<>>: none)
    lp_n,            \* end-of-song continuations completed since then
    sk,              \* what the last call of skip returned: "none" | "true" | "false"
    op,              \* the last observed call of another operation and what it returned
    in_order,        \* only enqueues, plays, pauses and skips so far, loop mode Off
    vc_kind,         \* guild.voice_client: "none" | "plain" | "recv" (VoiceRecvClient)
    \* VoiceAssistantCommand, for the guild; a dict entry is "absent", "true" or "false"
    active_guild,    \* guild_id in self.active_guilds
    is_responding,   \* self.is_responding[guild_id]
    stop_response,   \* self.stop_response[guild_id]
    ai_task,         \* self.ai_task[guild_id]: the handler whose task it is (0: absent)
    \* the guild's StreamingAudioSink
    is_capturing,
    pause_wake_word,
    \* wake_word_service
    ww_listening,    \* WakeWordService.is_listening
    \* the runs of on_wake_word_detected, 1..n_handlers, and their tasks
    n_handlers,
    hpc,             \* where each run is suspended
    harg,            \* the task an interrupting run awaits
    ai,              \* ai_gen_task of each run
    tts,             \* tts_task (tts_player) of each run
    squeue,          \* sentences_queue of each run (0 is the None end signal)
    sentence,        \* the item tts_player of each run got last (0: none yet, or None)
    full_response,   \* len(full_response) of each run
    produced,        \* batches the LLM stream of each run has yielded
    chat,            \* chat_manager's conversation of the user
    g_cut,           \* observer: how each run's response was cut short
    \* the voice assistant across guilds, and the one wake_word_service
    active_guilds,   \* the keys of VoiceAssistantCommand.active_guilds
    flag_guilds,     \* the keys of is_responding / stop_response
    ww_callback,     \* WakeWordService.detection_callback: the guild of its closure (0: None)
    runs,            \* runs of on_wake_word_detected started, per guild of the closure
    last_heard,      \* the guild whose sink received the last detected wake word (0: none)
    last_ran,        \* the guild whose on_wake_word_detected that detection ran
    \* one call of AIService.get_response_with_sentence_streaming; a string is the
    \* sequence of its characters
    response_parts,  \* "".join(response_parts): the text streamed so far
    sentence_buffer,
    sentences_batch,
    dispatched,      \* the batches passed to on_sentence, in the order of the calls
    stream_done,     \* the call has returned
    \* ChatManager
    conversations,   \* self.conversations: user_id -> ConversationHistory.messages
    added,           \* observer: every message added for each user, in the order of the calls
    \* MusicService's metadata cache
    metadata_cache,  \* self._metadata_cache in dict order: url and timestamp of each entry
    now,             \* time.time(), in seconds
    ticks,           \* observer: the times the clock was seen to advance
    n_cached         \* observer: URLs cached so far (a URL's number is its rank in that order)

qvars == <<queue_exists, songs, current_song, start_time, is_playing, is_paused, history,
           loop_mode, resolving, pending_next, next_id>>
tvars == <<vc, vc_src>>
ovars == <<enq_first, enq_clean, play_starts, rt_step, rt_a, rt_b,
           fl_m, fl_n, lp_orig, lp_n, sk, op, in_order>>
svars == <<active_guild, is_responding, stop_response, ai_task, is_capturing,
           pause_wake_word, ww_listening, n_handlers, hpc, harg, ai, tts, squeue,
           full_response, produced, chat, g_cut>>
mvars == <<active_guilds, flag_guilds, ww_callback, runs, last_heard, last_ran>>
bvars == <<response_parts, sentence_buffer, sentences_batch, dispatched, stream_done>>
kvars == <<conversations, added, metadata_cache, now, ticks, n_cached>>
vars == <<qvars, tvars, ovars, vc_kind, svars, mvars, bvars, sentence, kvars>>

\* ------------------------------------------------------------ helpers
Last(s) == s[Len(s)]
Front(s) == SubSeq(s, 1, Len(s) - 1)
\* ids of all Song objects any specification creates
AllSongIds == 1..(MaxSongs + FinishedSongs)
NoTasks == [s \in AllSongIds |-> 0]
RECURSIVE SumTo(_, _)
SumTo(f, n) == IF n = 0 THEN 0 ELSE f[n] + SumTo(f, n - 1)
\* only Song objects already created (ids below next_id) can have calls
TaskCount == SumTo(resolving, next_id - 1)
CanSpawn == TaskCount < MaxTasks
Bijections(n) == {f \in [1..n -> 1..n] : \A i, j \in 1..n : i # j => f[i] # f[j]}
\* random.shuffle: every ordering of the list
Shuffles(s) == {[i \in 1..Len(s) |-> s[f[i]]] : f \in Bijections(Len(s))}
\* (mutation: over the cap the newest entry is removed)
HistoryAppendNewestDropped(h, s) ==
    LET h1 == Append(h, s) IN IF Len(h1) > HistoryCap THEN Front(h1) ELSE h1
\* history.append(song) followed by the cap of _play_next
HistoryAppend(h, s) ==
    LET h1 == Append(h, s) IN IF Len(h1) > HistoryCap THEN Tail(h1) ELSE h1

\* ------------------------------------------------------------ transport
\* discord.VoiceClient.is_playing() / is_paused()
VcIsPlaying == vc = "playing"
VcIsPaused == vc = "paused"
\* the `after` callback of the current player: after_playing of _play_song
\* schedules _play_next; the callback of a speech source schedules nothing
AfterSchedules == IF vc # "idle" /\ vc_src.kind = "song" THEN 1 ELSE 0
\* voice_client.stop(): the player ends and its `after` callback runs
VcStop ==
    /\ vc' = "idle"
    /\ vc_src' = NoSource
    /\ pending_next' = pending_next + AfterSchedules

\* ------------------------------------------------------------ observers
IdleGuild ==
    /\ ~is_playing
    /\ vc = "idle"
    /\ resolving = NoTasks
    /\ pending_next = 0
EnqReset == enq_first' = 0 /\ enq_clean' = FALSE /\ play_starts' = 0
EnqKeep == UNCHANGED <<enq_first, enq_clean, play_starts>>
EnqPlayCalled ==
    IF enq_clean
    THEN /\ play_starts' = IF play_starts < MaxPlays THEN play_starts + 1 ELSE play_starts
         /\ UNCHANGED <<enq_first, enq_clean>>
    ELSE EnqKeep
RtReset == rt_step' = 0 /\ rt_a' = 0 /\ rt_b' = 0
RtAdvance(from) ==
    IF rt_step \in from
    THEN rt_step' = rt_step + 1 /\ UNCHANGED <<rt_a, rt_b>>
    ELSE RtReset
FlReset == fl_m' = 0 /\ fl_n' = 0
FlKeep == UNCHANGED <<fl_m, fl_n>>
\* playback starts on the idle guild with the list S
FlStart(S) == IF IdleGuild THEN fl_m' = Len(S) /\ fl_n' = 0 ELSE FlReset
FlFailed == IF fl_m > 0 THEN fl_m' = fl_m /\ fl_n' = fl_n + 1 ELSE FlReset
LpReset == lp_orig' = <<>> /\ lp_n' = 0
LpKeep == UNCHANGED <<lp_orig, lp_n>>
\* the front song plays, it is current, a loop mode is set, nothing in flight
LpPre ==
    /\ songs # <<>>
    /\ current_song = songs[1]
    /\ is_playing /\ ~is_paused
    /\ vc = "playing" /\ vc_src = SongSource(songs[1])
    /\ loop_mode \in {"song", "queue"}
    /\ resolving = NoTasks
    /\ pending_next = 0
LpSongEnds ==
    IF lp_orig # <<>>
    THEN IF lp_n < MaxLoops THEN LpKeep ELSE LpReset
    ELSE IF LpPre THEN lp_orig' = songs /\ lp_n' = 0 ELSE LpReset
LpPlayed ==
    IF lp_orig # <<>> THEN lp_orig' = lp_orig /\ lp_n' = lp_n + 1 ELSE LpReset
SkReset == sk' = "none"
\* what an observed call returned: its name, its argument (for clear_and_stop:
\* 1 when it stopped the transport), the value returned
NoOp == [name |-> "none", arg |-> 0, ret |-> 0]
Returned(n, a, r) == [name |-> n, arg |-> a, ret |-> r]
OpReset == op' = NoOp
\* a step of the program itself: what clear_and_stop returned stays on record
OpSystem == op' = IF op.name = "clear" THEN op ELSE NoOp
OrdKeep == UNCHANGED in_order
OrdBreak == in_order' = FALSE
ScenReset == FlReset /\ LpReset /\ SkReset /\ OpReset
\* queue [A,B] with A playing, loop mode Off, empty history, nothing in flight
RtPre ==
    /\ Len(songs) = 2
    /\ songs[1] # songs[2]
    /\ current_song = songs[1]
    /\ is_playing /\ ~is_paused
    /\ vc = "playing" /\ vc_src = SongSource(songs[1])
    /\ history = <<>>
    /\ loop_mode = "off"
    /\ resolving = NoTasks
    /\ pending_next = 0

\* ------------------------------------------------------------ _play_song
\* _play_song up to its await: on the list S (the caller's songs), with R the
\* suspended calls that remain
\* (mutation: the flag is not raised before the await)
PlaySongLeavesFlag(S) == S # <<>> /\ is_playing
\* queue.is_playing after the synchronous part of _play_song
PlaySongMarksPlaying(S) == S # <<>>
\* st: whether current_song.start_time is set when _play_song is called
PlaySongFrom(S, R, st) ==
    /\ songs' = S
    /\ is_playing' = PlaySongMarksPlaying(S)
    /\ IF S = <<>>
       THEN current_song' = current_song /\ start_time' = st /\ resolving' = R
       ELSE /\ current_song' = Head(S)
            \* song.start_time = time.time()
            /\ start_time' = TRUE
            /\ resolving' = [R EXCEPT ![Head(S)] = @ + 1]
PlaySong(S, R) == PlaySongFrom(S, R, start_time)

\* the failure branches of _play_song: queue.songs.pop(0), then _play_song
\* again. pop(0) on an empty list raises IndexError, which the handler's own
\* pop(0) raises again: the call ends with the queue as it was.
\* (mutation: under queue loop the dropped song is appended again)
DroppedFrontRequeued(S) ==
    IF loop_mode = "queue" THEN Append(Tail(S), Head(S)) ELSE Tail(S)
\* queue.songs after queue.songs.pop(0)
DroppedFront(S) == Tail(S)
DropFrontAndPlay(R) ==
    IF songs = <<>>
    THEN /\ resolving' = R
         /\ UNCHANGED <<songs, current_song, start_time, is_playing>>
    ELSE PlaySong(DroppedFront(songs), R)

\* _play_song resumes from `await self._get_stream_url(song.url)` with the
\* local `song` = s; ok: a stream URL was returned
ResolveDone(s, ok) ==
    /\ resolving[s] > 0
    /\ LET R == [resolving EXCEPT ![s] = @ - 1] IN
       IF ok /\ ~VcIsPlaying
       THEN \* voice_client.play(source, after=after_playing)
            /\ vc' = "playing"
            /\ vc_src' = SongSource(s)
            /\ resolving' = R
            /\ UNCHANGED <<songs, current_song, start_time, is_playing>>
       ELSE \* no stream URL, or play() raises ClientException (already playing)
            /\ DropFrontAndPlay(R)
            /\ UNCHANGED tvars
    /\ IF ok THEN EnqPlayCalled ELSE EnqReset
    /\ IF ok /\ ~VcIsPlaying THEN RtAdvance({2, 5}) ELSE RtReset
    /\ IF ok THEN FlReset ELSE FlFailed
    /\ IF ok /\ ~VcIsPlaying THEN LpPlayed ELSE LpReset
    /\ SkReset /\ OpSystem
    /\ IF ok /\ ~VcIsPlaying THEN OrdKeep ELSE OrdBreak
    /\ UNCHANGED <<sentence, kvars, bvars, mvars, svars, vc_kind, queue_exists, is_paused, history, loop_mode, pending_next, next_id>>

\* ------------------------------------------------------------ operations
\* add_to_queue, up to the await inside _play_song; the Song objects created
\* are numbered up to limit
EnqueueSong(limit) ==
    /\ next_id <= limit
    /\ Len(songs) < MaxQueueLen
    /\ queue_exists' = TRUE
    /\ next_id' = next_id + 1
    /\ IF IdleGuild
       THEN enq_first' = next_id /\ enq_clean' = TRUE /\ play_starts' = 0
       ELSE EnqKeep
    /\ IF ~is_playing
       THEN CanSpawn /\ PlaySong(Append(songs, next_id), resolving)
       ELSE /\ songs' = Append(songs, next_id)
            /\ UNCHANGED <<current_song, start_time, is_playing, resolving>>
    /\ RtReset
    /\ FlStart(Append(songs, next_id)) /\ LpReset /\ SkReset /\ OpReset /\ OrdKeep
    \* play.py: voice_channel.connect() when the guild has no voice client
    /\ vc_kind' = IF vc_kind = "none" THEN "plain" ELSE vc_kind
    /\ UNCHANGED <<sentence, kvars, bvars, mvars, svars, is_paused, history, loop_mode, pending_next, tvars>>

Enqueue == EnqueueSong(MaxSongs)

\* (mutation: the playlist is added last song first)
ExtendedReversed(S, n) == S \o [i \in 1..n |-> next_id + n - i]
\* queue.songs.extend(songs), the n songs of the playlist numbered in its order
Extended(S, n) == S \o [i \in 1..n |-> next_id + i - 1]
\* add_playlist_to_queue with a playlist of n songs
EnqueuePlaylist(n) ==
    /\ next_id + n - 1 <= MaxSongs
    /\ Len(songs) + n <= MaxQueueLen
    /\ queue_exists' = TRUE
    /\ next_id' = next_id + n
    /\ LET S == Extended(songs, n) IN
       /\ IF ~is_playing
          THEN CanSpawn /\ PlaySong(S, resolving)
          ELSE /\ songs' = S
               /\ UNCHANGED <<current_song, start_time, is_playing, resolving>>
       /\ FlStart(S)
    /\ EnqReset /\ RtReset
    /\ LpReset /\ SkReset /\ OpReset /\ OrdKeep
    \* play.py: voice_channel.connect() when the guild has no voice client
    /\ vc_kind' = IF vc_kind = "none" THEN "plain" ELSE vc_kind
    /\ UNCHANGED <<sentence, kvars, bvars, mvars, svars, is_paused, history, loop_mode, pending_next, tvars>>

\* the player reaches the end of a song: its after_playing callback runs
SongEnds ==
    /\ vc = "playing" /\ vc_src.kind = "song"
    /\ pending_next < MaxPending
    /\ IF RtPre
       THEN rt_step' = 1 /\ rt_a' = songs[1] /\ rt_b' = songs[2]
       ELSE RtReset
    /\ VcStop
    /\ EnqReset
    /\ FlReset /\ LpSongEnds /\ SkReset /\ OpSystem /\ OrdKeep
    /\ UNCHANGED <<sentence, kvars, bvars, mvars, svars, vc_kind, queue_exists, songs, current_song, start_time, is_playing, is_paused,
                   history, loop_mode, resolving, next_id>>

\* (mutation: the looped song is not replayed)
LoopsSongNever == FALSE
\* `queue.loop_mode == "song" and queue.current_song`
LoopsSong == loop_mode = "song" /\ current_song # None
\* (mutation: the removed song is not added back)
RotatedDropped(S) == Tail(S)
\* under queue loop: songs.pop(0), then songs.append(removed_song)
Rotated(S) == Append(Tail(S), Head(S))

\* _play_next, scheduled by after_playing, up to the await inside _play_song;
\* explored while len(history) is below maxh
PlayNextWithin(maxh) ==
    /\ pending_next > 0
    /\ CanSpawn
    /\ Len(history) < maxh
    /\ pending_next' = pending_next - 1
    /\ IF LoopsSong
       THEN \* queue.current_song.start_time = None, then _play_song
            /\ PlaySongFrom(songs, resolving, FALSE)
            /\ UNCHANGED history
       ELSE LET S1 == IF songs = <<>> THEN songs
                      ELSE IF loop_mode = "queue"
                           THEN Rotated(songs)
                           ELSE Tail(songs)
            IN /\ history' = IF songs # <<>> /\ current_song # None
                             THEN HistoryAppend(history, current_song)
                             ELSE history
               /\ IF S1 = <<>>
                  THEN /\ songs' = S1
                       /\ is_playing' = FALSE
                       /\ current_song' = None
                       /\ start_time' = FALSE
                       /\ UNCHANGED resolving
                  ELSE PlaySong(S1, resolving)
    /\ EnqReset
    /\ RtAdvance({1, 4})
    /\ FlReset /\ LpKeep /\ SkReset /\ OpSystem /\ OrdKeep
    /\ UNCHANGED <<sentence, kvars, bvars, mvars, svars, vc_kind, queue_exists, is_paused, loop_mode, next_id, tvars>>

PlayNext == PlayNextWithin(MaxHistory)

\* (mutation: the stopped player schedules no continuation)
SkipStopsSilently ==
    vc' = "idle" /\ vc_src' = NoSource /\ pending_next' = pending_next
\* `queue.voice_client.stop()` of skip: after_playing runs
SkipStops == VcStop
\* (mutation: skip stops the transport whatever the queue's state)
SkipAcceptedAlways == VcIsPlaying
\* skip returns True: a queue, is_playing, and the transport is playing
SkipAccepted == queue_exists /\ is_playing /\ VcIsPlaying
\* skip, when it returns True
Skip ==
    /\ SkipAccepted
    /\ pending_next < MaxPending
    /\ SkipStops
    /\ EnqReset /\ RtReset /\ ScenReset /\ OrdKeep
    /\ UNCHANGED <<sentence, kvars, bvars, mvars, svars, vc_kind, queue_exists, songs, current_song, start_time, is_playing, is_paused,
                   history, loop_mode, resolving, next_id>>

\* skip, with what it returns observed
SkipCall ==
    /\ OpReset /\ OrdKeep
    /\ IF SkipAccepted
       THEN /\ pending_next < MaxPending
            /\ SkipStops
            /\ sk' = "true"
            /\ EnqReset /\ RtReset /\ FlReset /\ LpReset
       ELSE /\ sk' = "false"
            /\ UNCHANGED <<tvars, pending_next, enq_first, enq_clean, play_starts,
                           rt_step, rt_a, rt_b, fl_m, fl_n, lp_orig, lp_n>>
    /\ UNCHANGED <<sentence, kvars, bvars, mvars, svars, vc_kind, queue_exists, songs, current_song, start_time, is_playing, is_paused,
                   history, loop_mode, resolving, next_id>>

\* pause returns True: a queue, is_playing, the transport is playing, not is_paused
PauseAccepted == queue_exists /\ is_playing /\ VcIsPlaying /\ ~is_paused
\* pause, when it returns True
Pause ==
    /\ PauseAccepted
    /\ vc' = "paused"
    /\ is_paused' = TRUE
    /\ EnqReset /\ RtReset /\ ScenReset /\ OrdKeep
    /\ UNCHANGED <<sentence, kvars, bvars, mvars, svars, vc_kind, queue_exists, songs, current_song, start_time, is_playing, history,
                   loop_mode, resolving, pending_next, next_id, vc_src>>

\* resume returns True: a queue, is_playing, the transport is paused, is_paused
ResumeAccepted == queue_exists /\ is_playing /\ VcIsPaused /\ is_paused
\* resume, when it returns True
Resume ==
    /\ ResumeAccepted
    /\ vc' = "playing"
    /\ is_paused' = FALSE
    /\ EnqReset /\ RtReset /\ ScenReset /\ OrdKeep
    /\ UNCHANGED <<sentence, kvars, bvars, mvars, svars, vc_kind, queue_exists, songs, current_song, start_time, is_playing, history,
                   loop_mode, resolving, pending_next, next_id, vc_src>>

\* previous goes on: a queue with a non-empty history
PreviousAccepted == queue_exists /\ history # <<>>
\* previous, when it goes on, up to the await inside _play_song
Previous ==
    /\ PreviousAccepted
    /\ LET S1 == IF current_song # None
                 THEN <<Last(history), current_song>> \o songs
                 ELSE <<Last(history)>> \o songs
       IN /\ Len(S1) <= MaxQueueLen
          /\ history' = Front(history)
          /\ IF VcIsPlaying \/ VcIsPaused
             THEN /\ pending_next < MaxPending
                  /\ VcStop
                  /\ songs' = S1
                  /\ UNCHANGED <<current_song, start_time, is_playing, resolving>>
             ELSE /\ CanSpawn
                  /\ PlaySong(S1, resolving)
                  /\ UNCHANGED <<tvars, pending_next>>
    /\ EnqReset
    /\ RtAdvance({3})
    /\ ScenReset /\ OrdBreak
    /\ UNCHANGED <<sentence, kvars, bvars, mvars, svars, vc_kind, queue_exists, is_paused, loop_mode, next_id>>

\* (mutation: the song at the front is not counted, as in clear_queue)
ClearReturnsRemoved == IF songs = <<>> THEN 0 ELSE Len(songs) - 1
\* `queue_length = len(queue.songs)`, the value clear_and_stop returns
ClearReturns == Len(songs)
\* clear_and_stop on a guild that has a queue
ClearAndStop ==
    /\ queue_exists
    /\ IF VcIsPlaying \/ VcIsPaused
       THEN pending_next < MaxPending /\ VcStop
       ELSE UNCHANGED <<tvars, pending_next>>
    /\ songs' = <<>>
    /\ is_playing' = FALSE
    /\ is_paused' = FALSE
    /\ current_song' = None
    /\ start_time' = FALSE
    /\ EnqReset /\ RtReset /\ ScenReset /\ OrdBreak
    /\ UNCHANGED <<sentence, kvars, bvars, mvars, svars, vc_kind, queue_exists, history, loop_mode, resolving, next_id>>

\* shuffle_queue goes on: a queue with more than one song
ShuffleAccepted == queue_exists /\ Len(songs) > 1
\* (mutation: the whole list is shuffled)
ShuffledAll(S) == Shuffles(S)
\* `[first_song] + remaining` after random.shuffle(remaining)
Shuffled(S) == {<<Head(S)>> \o t : t \in Shuffles(Tail(S))}
\* shuffle_queue, when it returns True
Shuffle ==
    /\ ShuffleAccepted
    /\ songs' \in Shuffled(songs)
    /\ EnqReset /\ RtReset /\ ScenReset /\ OrdBreak
    /\ UNCHANGED <<sentence, kvars, bvars, mvars, svars, vc_kind, queue_exists, current_song, start_time, is_playing, is_paused, history,
                   loop_mode, resolving, pending_next, next_id, tvars>>

\* set_loop_mode
SetLoopMode(m) ==
    /\ queue_exists
    /\ loop_mode # m
    /\ loop_mode' = m
    /\ EnqReset /\ RtReset
    /\ FlKeep /\ LpReset /\ SkReset /\ OpReset /\ OrdBreak
    /\ UNCHANGED <<sentence, kvars, bvars, mvars, svars, vc_kind, queue_exists, songs, current_song, start_time, is_playing, is_paused,
                   history, resolving, pending_next, next_id, tvars>>

\* ------------------------------------------------- operations, observed
\* the operations with what they return on record, the calls that change
\* nothing included
CallResets == EnqReset /\ RtReset /\ FlReset /\ LpReset /\ SkReset
CallKeeps ==
    UNCHANGED <<enq_first, enq_clean, play_starts, rt_step, rt_a, rt_b,
                fl_m, fl_n, lp_orig, lp_n, sk, in_order>>

\* pause
PauseCall ==
    /\ IF PauseAccepted
       THEN /\ vc' = "paused"
            /\ is_paused' = TRUE
            /\ op' = Returned("pause", 0, 1)
            /\ CallResets /\ OrdKeep
       ELSE /\ op' = Returned("pause", 0, 0)
            /\ CallKeeps
            /\ UNCHANGED <<vc, is_paused>>
    /\ UNCHANGED <<sentence, kvars, bvars, mvars, svars, vc_kind, queue_exists, songs, current_song, start_time, is_playing, history,
                   loop_mode, resolving, pending_next, next_id, vc_src>>

\* resume
ResumeCall ==
    /\ IF ResumeAccepted
       THEN /\ vc' = "playing"
            /\ is_paused' = FALSE
            /\ op' = Returned("resume", 0, 1)
            /\ CallResets /\ OrdKeep
       ELSE /\ op' = Returned("resume", 0, 0)
            /\ CallKeeps
            /\ UNCHANGED <<vc, is_paused>>
    /\ UNCHANGED <<sentence, kvars, bvars, mvars, svars, vc_kind, queue_exists, songs, current_song, start_time, is_playing, history,
                   loop_mode, resolving, pending_next, next_id, vc_src>>

\* (mutation: previous without a history stops the transport before it returns)
PreviousRejectedStops ==
    /\ VcStop
    /\ UNCHANGED <<songs, current_song, start_time, is_playing, history, resolving>>
\* `if not queue or not queue.history: return False`
PreviousRejected ==
    UNCHANGED <<songs, current_song, start_time, is_playing, history, resolving, tvars, pending_next>>
\* previous, up to the await inside _play_song or to its `return False`
PreviousCall ==
    /\ IF PreviousAccepted
       THEN /\ LET S1 == IF current_song # None
                         THEN <<Last(history), current_song>> \o songs
                         ELSE <<Last(history)>> \o songs
               IN /\ Len(S1) <= MaxQueueLen
                  /\ history' = Front(history)
                  /\ IF VcIsPlaying \/ VcIsPaused
                     THEN /\ pending_next < MaxPending
                          /\ VcStop
                          /\ songs' = S1
                          /\ UNCHANGED <<current_song, start_time, is_playing, resolving>>
                     ELSE /\ CanSpawn
                          /\ PlaySong(S1, resolving)
                          /\ UNCHANGED <<tvars, pending_next>>
            /\ op' = Returned("previous", 0, 1)
            /\ EnqReset /\ RtAdvance({3}) /\ FlReset /\ LpReset /\ SkReset /\ OrdBreak
       ELSE /\ PreviousRejected
            /\ op' = Returned("previous", 0, 0)
            /\ CallKeeps
    /\ UNCHANGED <<sentence, kvars, bvars, mvars, svars, vc_kind, queue_exists, is_paused, loop_mode, next_id>>

\* clear_and_stop, on a guild with or without a queue
ClearCall ==
    /\ IF queue_exists
       THEN /\ IF VcIsPlaying \/ VcIsPaused
               THEN pending_next < MaxPending /\ VcStop
               ELSE UNCHANGED <<tvars, pending_next>>
            /\ songs' = <<>>
            /\ is_playing' = FALSE
            /\ is_paused' = FALSE
            /\ current_song' = None
            /\ start_time' = FALSE
            /\ op' = Returned("clear", IF vc = "idle" THEN 0 ELSE 1, ClearReturns)
            /\ CallResets /\ OrdBreak
       ELSE /\ op' = Returned("clear", 0, 0)
            /\ CallKeeps
            /\ UNCHANGED <<songs, is_playing, is_paused, current_song, start_time, tvars, pending_next>>
    /\ UNCHANGED <<sentence, kvars, bvars, mvars, svars, vc_kind, queue_exists, history, loop_mode, resolving, next_id>>

\* shuffle_queue
ShuffleCall ==
    /\ IF ShuffleAccepted
       THEN /\ songs' \in Shuffled(songs)
            /\ op' = Returned("shuffle", 0, 1)
            /\ CallResets /\ OrdBreak
       ELSE /\ op' = Returned("shuffle", 0, 0)
            /\ CallKeeps
            /\ UNCHANGED songs
    /\ UNCHANGED <<sentence, kvars, bvars, mvars, svars, vc_kind, queue_exists, current_song, start_time, is_playing, is_paused, history,
                   loop_mode, resolving, pending_next, next_id, tvars>>

Min(a, b) == IF a < b THEN a ELSE b
\* get_current_position: elapsed is int(time.time() - start_time), duration the
\* duration_seconds of the current song
GetCurrentPosition(elapsed, duration) ==
    IF ~queue_exists \/ current_song = None \/ ~start_time
    THEN 0
    ELSE IF is_paused THEN 0 ELSE Min(elapsed, duration)
\* a call of get_current_position
PositionCall(elapsed, duration) ==
    /\ op' = Returned("position", duration, GetCurrentPosition(elapsed, duration))
    /\ CallKeeps
    /\ UNCHANGED <<sentence, kvars, bvars, mvars, svars, vc_kind, qvars, tvars>>

\* ------------------------------------------------------------ voice assistant
qrest == <<queue_exists, songs, current_song, start_time, is_playing, is_paused, history,
           loop_mode, resolving, next_id>>
\* self.is_responding.get(guild_id, False), self.stop_response.get(guild_id, False)
Get(entry) == entry = "true"
\* a full deque that refuses the new message instead of dropping its oldest one
ChatAppendOldest(c, m) ==
    IF Len(c) >= ChatCap THEN c ELSE Append(c, m)
\* deque(maxlen=max_messages).append
ChatAppend(c, m) ==
    LET c1 == Append(c, m) IN IF Len(c1) > ChatCap THEN Tail(c1) ELSE c1
AiFinished(h) == ai[h] \in {"done", "cancelled", "failed"}
\* the runs whose response is being generated or spoken
Responding(h) == hpc[h] \in {"gen", "wait_tts"}

\* `if voice_client.is_playing(): voice_client.stop()`
VcStopIfPlaying ==
    IF VcIsPlaying THEN VcStop ELSE UNCHANGED <<vc, vc_src, pending_next>>
\* play_in_voice_channel: stop what is playing, then voice_client.play(source)
PlayInVoiceChannel(src) ==
    /\ pending_next' = pending_next + (IF VcIsPlaying THEN AfterSchedules ELSE 0)
    /\ vc' = "playing"
    /\ vc_src' = src
\* text_to_speech returned a file (ok) and it is played, or it returned None
SpeakIf(ok, src) ==
    IF ok THEN PlayInVoiceChannel(src) ELSE UNCHANGED <<vc, vc_src, pending_next>>

\* the `finally` of on_wake_word_detected
Finally(h) ==
    /\ ai_task' = 0
    /\ is_responding' = "false"
    /\ stop_response' = "false"
    /\ pause_wake_word' = FALSE
    /\ hpc' = [hpc EXCEPT ![h] = "done"]

\* a step that the event loop runs at once (a ready callback, or a 0.1 s poll
\* whose exit condition holds): it runs before a 0.3 s sleep started earlier ends
Urgent ==
    \E r \in Handlers :
        \/ ai[r] = "cancelling"
        \/ hpc[r] = "gen" /\ AiFinished(r)
        \/ hpc[r] = "wait_tts" /\ tts[r] = "done"
        \/ hpc[r] = "int_await" /\ AiFinished(harg[r])
        \/ tts[r] = "check"
        \/ tts[r] = "get" /\ squeue[r] # <<>>
        \/ tts[r] = "poll" /\ (~VcIsPlaying \/ Get(stop_response))

\* WakeWordService.process_audio_packet detects the keyword in a packet the
\* sink forwarded and schedules on_wake_word_detected, which runs up to its
\* first await
Detect ==
    /\ active_guild /\ ww_listening /\ ~pause_wake_word
    /\ n_handlers < MaxHandlers
    /\ LET h == n_handlers + 1 IN
       /\ n_handlers' = h
       /\ IF Get(is_responding)
          THEN /\ stop_response' = "true"
               /\ VcStopIfPlaying
               /\ g_cut' = [r \in Handlers |->
                              IF Responding(r) THEN "interrupting" ELSE g_cut[r]]
               /\ IF ai_task # 0 /\ ai[ai_task] \in {"running", "cancelling"}
                  THEN /\ ai' = [ai EXCEPT ![ai_task] = "cancelling"]
                       /\ harg' = [harg EXCEPT ![h] = ai_task]
                       /\ hpc' = [hpc EXCEPT ![h] = "int_await"]
                  ELSE /\ hpc' = [hpc EXCEPT ![h] = "int_sleep"]
                       /\ UNCHANGED <<ai, harg>>
          ELSE /\ hpc' = [hpc EXCEPT ![h] = "beep_tts"]
               /\ UNCHANGED <<stop_response, ai, harg, g_cut, vc, vc_src, pending_next>>
    /\ UNCHANGED <<active_guild, is_responding, ai_task, is_capturing, pause_wake_word,
                   ww_listening, tts, squeue, full_response, produced, chat>>
    /\ UNCHANGED <<sentence, kvars, bvars, mvars, qrest, ovars, vc_kind>>

\* `await self.ai_task[guild_id]` of the interruption branch returns
HIntAwait(h) ==
    /\ hpc[h] = "int_await" /\ AiFinished(harg[h])
    /\ hpc' = [hpc EXCEPT ![h] = "int_sleep"]
    /\ UNCHANGED <<active_guild, is_responding, stop_response, ai_task, is_capturing,
                   pause_wake_word, ww_listening, n_handlers, harg, ai, tts, squeue,
                   full_response, produced, chat, g_cut>>
    /\ UNCHANGED <<sentence, kvars, bvars, mvars, qrest, pending_next, tvars, ovars, vc_kind>>

\* the interruption branch after `await asyncio.sleep(0.3)`, up to the await
\* inside play_beep
HIntSleep(h) ==
    /\ hpc[h] = "int_sleep" /\ ~Urgent
    /\ is_responding' = "false"
    /\ stop_response' = "false"
    /\ pause_wake_word' = FALSE
    /\ hpc' = [hpc EXCEPT ![h] = "beep_tts"]
    /\ g_cut' = [r \in Handlers |->
                   IF g_cut[r] = "interrupting" THEN "interrupted" ELSE g_cut[r]]
    /\ UNCHANGED <<active_guild, ai_task, is_capturing, ww_listening, n_handlers,
                   harg, ai, tts, squeue, full_response, produced, chat>>
    /\ UNCHANGED <<sentence, kvars, bvars, mvars, qrest, pending_next, tvars, ovars, vc_kind>>

\* play_beep after text_to_speech, up to the first sleep of the wait loop
HBeepTts(h, ok) ==
    /\ hpc[h] = "beep_tts"
    /\ SpeakIf(ok, SpeechSource("beep", h))
    /\ hpc' = [hpc EXCEPT ![h] = "beep_wait"]
    /\ UNCHANGED <<active_guild, is_responding, stop_response, ai_task, is_capturing,
                   pause_wake_word, ww_listening, n_handlers, harg, ai, tts, squeue,
                   full_response, produced, chat, g_cut>>
    /\ UNCHANGED <<sentence, kvars, bvars, mvars, qrest, ovars, vc_kind>>

\* `while voice_client.is_playing()` ends: sink.start_capture()
HBeepWait(h) ==
    /\ hpc[h] = "beep_wait" /\ ~VcIsPlaying
    /\ is_capturing' = TRUE
    /\ pause_wake_word' = TRUE
    /\ hpc' = [hpc EXCEPT ![h] = "capturing"]
    /\ UNCHANGED <<active_guild, is_responding, stop_response, ai_task, ww_listening,
                   n_handlers, harg, ai, tts, squeue, full_response, produced, chat,
                   g_cut>>
    /\ UNCHANGED <<sentence, kvars, bvars, mvars, qrest, pending_next, tvars, ovars, vc_kind>>

\* after the capture sleep: stop_capture, resume_wake_word_detection, and the
\* length test (enough: at least 100 bytes were captured). After `voice stop`
\* the sink was cleaned up (audio_buffer = []) and receives no more packets.
HCaptureDone(h, enough) ==
    /\ hpc[h] = "capturing"
    /\ enough => active_guild
    /\ is_capturing' = FALSE
    /\ pause_wake_word' = FALSE
    /\ IF enough
       THEN /\ hpc' = [hpc EXCEPT ![h] = "transcribing"]
            /\ UNCHANGED <<vc, vc_src, pending_next>>
       ELSE /\ hpc' = [hpc EXCEPT ![h] = "apology_tts"]
            /\ VcStopIfPlaying
    /\ UNCHANGED <<active_guild, is_responding, stop_response, ai_task, ww_listening,
                   n_handlers, harg, ai, tts, squeue, full_response, produced, chat,
                   g_cut>>
    /\ UNCHANGED <<sentence, kvars, bvars, mvars, qrest, ovars, vc_kind>>

\* transcribe_audio_data returned (heard: a non-empty text); with a text the
\* response starts: flags, user message, tts_task and ai_gen_task
HTranscribed(h, heard) ==
    /\ hpc[h] = "transcribing"
    /\ IF heard
       THEN /\ is_responding' = "true"
            /\ stop_response' = "false"
            /\ chat' = ChatAppend(chat, <<"user", h>>)
            /\ squeue' = [squeue EXCEPT ![h] = <<>>]
            /\ tts' = [tts EXCEPT ![h] = "check"]
            /\ ai' = [ai EXCEPT ![h] = "running"]
            /\ ai_task' = h
            /\ hpc' = [hpc EXCEPT ![h] = "gen"]
            /\ UNCHANGED <<vc, vc_src, pending_next>>
       ELSE /\ hpc' = [hpc EXCEPT ![h] = "apology_tts"]
            /\ VcStopIfPlaying
            /\ UNCHANGED <<is_responding, stop_response, chat, squeue, tts, ai, ai_task>>
    /\ UNCHANGED <<active_guild, is_capturing, pause_wake_word, ww_listening,
                   n_handlers, harg, full_response, produced, g_cut>>
    /\ UNCHANGED <<sentence, kvars, bvars, mvars, qrest, ovars, vc_kind>>

\* the "didn't hear you" apology after its text_to_speech; the run returns
HApologyTts(h, ok) ==
    /\ hpc[h] = "apology_tts"
    /\ SpeakIf(ok, SpeechSource("apology", h))
    /\ hpc' = [hpc EXCEPT ![h] = "done"]
    /\ UNCHANGED <<active_guild, is_responding, stop_response, ai_task, is_capturing,
                   pause_wake_word, ww_listening, n_handlers, harg, ai, tts, squeue,
                   full_response, produced, chat, g_cut>>
    /\ UNCHANGED <<sentence, kvars, bvars, mvars, qrest, ovars, vc_kind>>

\* ai_generator: the LLM stream yields a batch and on_sentence runs
AiSentence(h) ==
    /\ ai[h] = "running" /\ produced[h] < MaxSentences
    /\ produced' = [produced EXCEPT ![h] = @ + 1]
    /\ IF ~Get(stop_response)
       THEN /\ squeue' = [squeue EXCEPT ![h] = Append(@, produced[h] + 1)]
            /\ full_response' = [full_response EXCEPT ![h] = @ + 1]
       ELSE UNCHANGED <<squeue, full_response>>
    /\ UNCHANGED <<active_guild, is_responding, stop_response, ai_task, is_capturing,
                   pause_wake_word, ww_listening, n_handlers, hpc, harg, ai, tts,
                   chat, g_cut>>
    /\ UNCHANGED <<sentence, kvars, bvars, mvars, qrest, pending_next, tvars, ovars, vc_kind>>

\* ai_generator: the stream ends, or raises (swallowed when stop_response is set)
AiEnd(h, failed) ==
    /\ ai[h] = "running"
    /\ ai' = [ai EXCEPT ![h] =
                IF failed /\ ~Get(stop_response) THEN "failed" ELSE "done"]
    /\ UNCHANGED <<active_guild, is_responding, stop_response, ai_task, is_capturing,
                   pause_wake_word, ww_listening, n_handlers, hpc, harg, tts, squeue,
                   full_response, produced, chat, g_cut>>
    /\ UNCHANGED <<sentence, kvars, bvars, mvars, qrest, pending_next, tvars, ovars, vc_kind>>

\* ai_generator: CancelledError is thrown into the task and re-raised
AiCancelled(h) ==
    /\ ai[h] = "cancelling"
    /\ ai' = [ai EXCEPT ![h] = "cancelled"]
    /\ UNCHANGED <<active_guild, is_responding, stop_response, ai_task, is_capturing,
                   pause_wake_word, ww_listening, n_handlers, hpc, harg, tts, squeue,
                   full_response, produced, chat, g_cut>>
    /\ UNCHANGED <<sentence, kvars, bvars, mvars, qrest, pending_next, tvars, ovars, vc_kind>>

\* `await sentences_queue.put(None)` of the CancelledError branch
\* (mutation: the branch puts nothing)
CancelSignalOmitted(q) == q
CancelSignal(q) == Append(q, 0)

\* `await ai_gen_task` returns or raises: end signals, or the except branch
HGenDone(h) ==
    /\ hpc[h] = "gen" /\ AiFinished(h)
    /\ IF ai[h] = "failed"
       THEN /\ IF ~Get(stop_response)
               THEN /\ VcStopIfPlaying
                    /\ hpc' = [hpc EXCEPT ![h] = "err_tts"]
                    /\ UNCHANGED <<ai_task, is_responding, stop_response, pause_wake_word>>
               ELSE /\ Finally(h)
                    /\ UNCHANGED <<vc, vc_src, pending_next>>
            /\ UNCHANGED squeue
       ELSE /\ squeue' = [squeue EXCEPT ![h] =
                            LET q1 == IF ai[h] = "cancelled" THEN CancelSignal(@) ELSE @
                            IN IF ~Get(stop_response) THEN Append(q1, 0) ELSE q1]
            /\ hpc' = [hpc EXCEPT ![h] = "wait_tts"]
            /\ UNCHANGED <<ai_task, is_responding, stop_response, pause_wake_word,
                           vc, vc_src, pending_next>>
    /\ UNCHANGED <<active_guild, is_capturing, ww_listening, n_handlers, harg, ai, tts,
                   full_response, produced, chat, g_cut>>
    /\ UNCHANGED <<sentence, kvars, bvars, mvars, qrest, ovars, vc_kind>>

\* `await asyncio.wait_for(tts_task, ...)` returns: the history append, then
\* the finally block
HWaitTts(h) ==
    /\ hpc[h] = "wait_tts" /\ tts[h] = "done"
    /\ chat' = IF ~Get(stop_response) /\ full_response[h] > 0
               THEN ChatAppend(chat, <<"assistant", h>>)
               ELSE chat
    /\ Finally(h)
    /\ UNCHANGED <<active_guild, is_capturing, ww_listening, n_handlers, harg, ai, tts,
                   squeue, full_response, produced, g_cut>>
    /\ UNCHANGED <<sentence, kvars, bvars, mvars, qrest, pending_next, tvars, ovars, vc_kind>>

\* the error apology after its text_to_speech, then the finally block
HErrTts(h, ok) ==
    /\ hpc[h] = "err_tts"
    /\ SpeakIf(ok, SpeechSource("apology", h))
    /\ Finally(h)
    /\ UNCHANGED <<active_guild, is_capturing, ww_listening, n_handlers, harg, ai, tts,
                   squeue, full_response, produced, chat, g_cut>>
    /\ UNCHANGED <<sentence, kvars, bvars, mvars, qrest, ovars, vc_kind>>

\* tts_player at the top of its loop: the stop check (with the drain), else on
\* to `await sentences_queue.get()`
TtsCheck(h) ==
    /\ tts[h] = "check"
    /\ IF Get(stop_response)
       THEN /\ squeue' = [squeue EXCEPT ![h] = <<>>]
            /\ tts' = [tts EXCEPT ![h] = "done"]
       ELSE /\ tts' = [tts EXCEPT ![h] = "get"]
            /\ UNCHANGED squeue
    /\ UNCHANGED <<active_guild, is_responding, stop_response, ai_task, is_capturing,
                   pause_wake_word, ww_listening, n_handlers, hpc, harg, ai,
                   full_response, produced, chat, g_cut>>
    /\ UNCHANGED <<sentence, kvars, bvars, mvars, qrest, pending_next, tvars, ovars, vc_kind>>

\* tts_player leaves its wait loop, or never enters it: break on stop_response,
\* else stream_to_voice_channel up to the await of text_to_speech
\* (mutation: tts_player does not wait for the transport)
MustWaitNever == FALSE
\* `while voice_client.is_playing() and not stop_response`: the loop is entered
MustWait == VcIsPlaying
TtsDispatch(h) ==
    IF Get(stop_response)
    THEN tts' = [tts EXCEPT ![h] = "done"]
    ELSE IF MustWait
         THEN tts' = [tts EXCEPT ![h] = "poll"]
         ELSE tts' = [tts EXCEPT ![h] = "synth"]

\* tts_player gets an item from sentences_queue
TtsGet(h) ==
    /\ tts[h] = "get" /\ squeue[h] # <<>>
    /\ squeue' = [squeue EXCEPT ![h] = Tail(@)]
    /\ sentence' = [sentence EXCEPT ![h] = Head(squeue[h])]
    /\ IF Head(squeue[h]) = 0
       THEN tts' = [tts EXCEPT ![h] = "done"]
       ELSE TtsDispatch(h)
    /\ UNCHANGED <<active_guild, is_responding, stop_response, ai_task, is_capturing,
                   pause_wake_word, ww_listening, n_handlers, hpc, harg, ai,
                   full_response, produced, chat, g_cut>>
    /\ UNCHANGED <<kvars, bvars, mvars, qrest, pending_next, tvars, ovars, vc_kind>>

\* tts_player wakes from the 0.1 s sleep of its wait loop and leaves the loop
TtsPoll(h) ==
    /\ tts[h] = "poll"
    /\ ~VcIsPlaying \/ Get(stop_response)
    /\ TtsDispatch(h)
    /\ UNCHANGED <<active_guild, is_responding, stop_response, ai_task, is_capturing,
                   pause_wake_word, ww_listening, n_handlers, hpc, harg, ai, squeue,
                   full_response, produced, chat, g_cut>>
    /\ UNCHANGED <<sentence, kvars, bvars, mvars, qrest, pending_next, tvars, ovars, vc_kind>>

\* stream_to_voice_channel of tts_player after text_to_speech: the batch plays
TtsSynthDone(h, ok) ==
    /\ tts[h] = "synth"
    /\ SpeakIf(ok, SpeechSource("resp", h))
    /\ tts' = [tts EXCEPT ![h] = "check"]
    /\ UNCHANGED <<active_guild, is_responding, stop_response, ai_task, is_capturing,
                   pause_wake_word, ww_listening, n_handlers, hpc, harg, ai, squeue,
                   full_response, produced, chat, g_cut>>
    /\ UNCHANGED <<sentence, kvars, bvars, mvars, qrest, ovars, vc_kind>>

\* the 30 s timeout of sentences_queue.get(), when nothing will be put any more
TtsTimeout(h) ==
    /\ tts[h] = "get" /\ squeue[h] = <<>>
    /\ ai[h] \notin {"running", "cancelling"} /\ hpc[h] # "gen"
    /\ tts' = [tts EXCEPT ![h] = "done"]
    /\ UNCHANGED <<active_guild, is_responding, stop_response, ai_task, is_capturing,
                   pause_wake_word, ww_listening, n_handlers, hpc, harg, ai, squeue,
                   full_response, produced, chat, g_cut>>
    /\ UNCHANGED <<sentence, kvars, bvars, mvars, qrest, pending_next, tvars, ovars, vc_kind>>

\* a speech source plays to its end (its after callback removes the file)
SpeechEnds ==
    /\ VcIsPlaying /\ vc_src.kind \in SpeechKinds
    /\ vc' = "idle"
    /\ vc_src' = NoSource
    /\ UNCHANGED <<sentence, kvars, bvars, mvars, svars, qrest, pending_next, ovars, vc_kind>>

\* `voice`: connect with VoiceRecvClient, flags, a new sink, the callback
VoiceStart ==
    /\ ~active_guild
    /\ vc_kind # "plain"
    /\ \A h \in Handlers : hpc[h] \in {"new", "done"} /\ tts[h] \in {"none", "done"}
    /\ vc_kind' = "recv"
    /\ is_responding' = "false"
    /\ stop_response' = "false"
    /\ is_capturing' = FALSE
    /\ pause_wake_word' = FALSE
    /\ ww_listening' = TRUE
    /\ active_guild' = TRUE
    /\ UNCHANGED <<ai_task, n_handlers, hpc, harg, ai, tts, squeue, full_response,
                   produced, chat, g_cut>>
    /\ UNCHANGED <<sentence, kvars, bvars, mvars, qrest, pending_next, tvars, ovars>>

\* `voice stop`
VoiceStop ==
    /\ active_guild
    /\ is_capturing' = FALSE
    /\ pause_wake_word' = FALSE
    /\ ww_listening' = FALSE
    /\ active_guild' = FALSE
    /\ is_responding' = "absent"
    /\ stop_response' = "absent"
    /\ ai' = IF ai_task # 0 /\ ai[ai_task] \in {"running", "cancelling"}
             THEN [ai EXCEPT ![ai_task] = "cancelling"]
             ELSE ai
    /\ ai_task' = 0
    /\ g_cut' = [r \in Handlers |-> IF Responding(r) THEN "stopped" ELSE g_cut[r]]
    /\ UNCHANGED <<n_handlers, hpc, harg, tts, squeue, full_response, produced, chat>>
    /\ UNCHANGED <<sentence, kvars, bvars, mvars, qrest, pending_next, tvars, ovars, vc_kind>>


\* ------------------------------------------------------------ shared transport
\* a run of on_wake_word_detected, or its tts_player, reaches
\* play_in_voice_channel (beep, apology or response batch) on the guild's
\* voice client, which is also the music queue's once `play` follows `voice`
AssistantSpeaks ==
    /\ active_guild
    /\ pending_next < MaxPending
    /\ PlayInVoiceChannel(SpeechSource("beep", 0))
    /\ EnqReset /\ RtReset /\ ScenReset /\ OrdBreak
    /\ UNCHANGED <<sentence, kvars, bvars, mvars, svars, qrest, vc_kind>>

\* ------------------------------------------------------------ guilds
\* `voice` in guild g: flags, set_detection_callback, start_listening, listen
GuildVoiceStart(g) ==
    /\ g \notin active_guilds
    /\ flag_guilds' = flag_guilds \cup {g}
    /\ ww_callback' = g
    /\ ww_listening' = TRUE
    /\ active_guilds' = active_guilds \cup {g}
    /\ UNCHANGED <<runs, last_heard, last_ran>>
    /\ UNCHANGED <<active_guild, is_responding, stop_response, ai_task, is_capturing,
                   pause_wake_word, n_handlers, hpc, harg, ai, tts, squeue,
                   full_response, produced, chat, g_cut>>
    /\ UNCHANGED <<sentence, kvars, bvars, qvars, tvars, ovars, vc_kind>>

\* `voice stop` in guild g: stop_listening, and the guild's entries deleted
GuildVoiceStop(g) ==
    /\ g \in active_guilds
    /\ ww_listening' = FALSE
    /\ active_guilds' = active_guilds \ {g}
    /\ flag_guilds' = flag_guilds \ {g}
    /\ UNCHANGED <<ww_callback, runs, last_heard, last_ran>>
    /\ UNCHANGED <<active_guild, is_responding, stop_response, ai_task, is_capturing,
                   pause_wake_word, n_handlers, hpc, harg, ai, tts, squeue,
                   full_response, produced, chat, g_cut>>
    /\ UNCHANGED <<sentence, kvars, bvars, qvars, tvars, ovars, vc_kind>>

\* the sink of guild g forwards a packet in which process_audio_packet detects
\* the keyword: the one detection_callback is scheduled
GuildDetect(g) ==
    /\ g \in active_guilds
    /\ ww_listening /\ ww_callback # 0
    /\ last_heard' = g
    /\ last_ran' = ww_callback
    /\ runs' = [runs EXCEPT ![ww_callback] = IF @ < MaxRuns THEN @ + 1 ELSE @]
    /\ UNCHANGED <<active_guilds, flag_guilds, ww_callback>>
    /\ UNCHANGED svars
    /\ UNCHANGED <<sentence, kvars, bvars, qvars, tvars, ovars, vc_kind>>


\* ------------------------------------------------------ sentence batching
\* AIService.get_response_with_sentence_streaming. The streamed text is made of
\* these characters; "w" is a word of WordLen letters, which no string
\* operation of the function looks into.
Chars == {"w", " ", ".", "!"}
\* the chunks the stream can yield: the non-empty strings of up to n characters
Chunks(n) == UNION {[1..k -> Chars] : k \in 1..n}
sentence_endings == <<".", "!", "?">>
\* len(s)
RECURSIVE StrLen(_)
StrLen(s) ==
    IF s = <<>> THEN 0
    ELSE (IF Head(s) = "w" THEN WordLen ELSE 1) + StrLen(Tail(s))
\* `e in s`
Contains(s, e) == \E i \in DOMAIN s : s[i] = e
\* s.split(e)
RECURSIVE Split(_, _)
Split(s, e) ==
    IF ~Contains(s, e) THEN <<s>>
    ELSE LET i == CHOOSE k \in DOMAIN s : s[k] = e /\ \A j \in 1..(k - 1) : s[j] # e
         IN <<SubSeq(s, 1, i - 1)>> \o Split(SubSeq(s, i + 1, Len(s)), e)
\* s.strip()
RECURSIVE LStrip(_)
LStrip(s) == IF s # <<>> /\ Head(s) = " " THEN LStrip(Tail(s)) ELSE s
RECURSIVE RStrip(_)
RStrip(s) == IF s # <<>> /\ Last(s) = " " THEN RStrip(Front(s)) ELSE s
Strip(s) == RStrip(LStrip(s))
\* " ".join(l)
RECURSIVE Join(_)
Join(l) ==
    IF l = <<>> THEN <<>>
    ELSE IF Len(l) = 1 THEN l[1] ELSE l[1] \o <<" ">> \o Join(Tail(l))
\* (mutation: the sentence loses its ending)
SentenceBare(part, e) == Strip(part)
\* `sentence = part.strip() + ending`
Sentence(part, e) == Strip(part) \o <<e>>
\* the loop over parts[:-1]: each sentence joins the batch, and the batch is
\* passed to on_sentence once its text reaches the target length
RECURSIVE AddParts(_, _, _)
AddParts(parts, e, st) ==
    IF parts = <<>> THEN st
    ELSE LET stripped == Strip(Sentence(Head(parts), e))
             b == Append(st.batch, stripped)
             batch_text == Join(b)
             st1 == IF stripped = <<>> THEN st
                    ELSE IF StrLen(batch_text) >= TargetBatchLength
                         THEN [batch |-> <<>>, out |-> Append(st.out, batch_text)]
                         ELSE [batch |-> b, out |-> st.out]
         IN AddParts(Tail(parts), e, st1)
\* the loop over sentence_endings, from the k-th ending on
RECURSIVE AfterEndings(_, _)
AfterEndings(st, k) ==
    IF k > Len(sentence_endings) THEN st
    ELSE LET e == sentence_endings[k]
             parts == Split(st.buf, e)
             r == AddParts(Front(parts), e, [batch |-> st.batch, out |-> st.out])
         IN AfterEndings(IF Contains(st.buf, e)
                         THEN [buf |-> Last(parts), batch |-> r.batch, out |-> r.out]
                         ELSE st,
                         k + 1)

\* the stream yields the chunk c: one turn of the `async for` loop
StreamChunk(c) ==
    /\ ~stream_done
    /\ Len(response_parts) + Len(c) <= MaxText
    /\ response_parts' = response_parts \o c
    /\ LET st == AfterEndings([buf |-> sentence_buffer \o c,
                               batch |-> sentences_batch,
                               out |-> dispatched], 1)
       IN /\ sentence_buffer' = st.buf
          /\ sentences_batch' = st.batch
          /\ dispatched' = st.out
    /\ UNCHANGED <<stream_done, qvars, tvars, ovars, vc_kind, svars, mvars, kvars, sentence>>

\* the stream ends: the remaining sentences, then the remaining buffer
StreamEnd ==
    /\ ~stream_done
    /\ stream_done' = TRUE
    /\ LET d1 == IF sentences_batch # <<>>
                 THEN Append(dispatched, Join(sentences_batch))
                 ELSE dispatched
       IN dispatched' = IF Strip(sentence_buffer) # <<>>
                        THEN Append(d1, Strip(sentence_buffer))
                        ELSE d1
    /\ UNCHANGED <<response_parts, sentence_buffer, sentences_batch,
                   qvars, tvars, ovars, vc_kind, svars, mvars, kvars, sentence>>

\* ------------------------------------------------------------ chat manager
\* get_conversation: the user's history, created empty on first use
GetConversation(u) ==
    IF u \in DOMAIN conversations THEN conversations[u] ELSE <<>>
\* observer: the messages added so far for the users of U
RECURSIVE AddedIn(_)
AddedIn(U) ==
    IF U = {} THEN 0
    ELSE LET u == CHOOSE x \in U : TRUE IN Len(added[u]) + AddedIn(U \ {u})
\* conversation.add_message(role, content); the content of a user's n-th
\* message is n
AddMessage(u, role) ==
    /\ AddedIn(Users) < MaxAdds
    /\ LET m == <<role, Len(added[u]) + 1>>
       IN /\ conversations' = (u :> ChatAppend(GetConversation(u), m)) @@ conversations
          /\ added' = [added EXCEPT ![u] = Append(@, m)]
    /\ UNCHANGED <<metadata_cache, now, ticks, n_cached,
                   qvars, tvars, ovars, vc_kind, svars, mvars, bvars, sentence>>
AddUserMessage(u) == AddMessage(u, "user")
AddAssistantMessage(u) == AddMessage(u, "assistant")

\* ------------------------------------------------------------ metadata cache
\* the keys of self._metadata_cache
CacheUrls == {metadata_cache[i].url : i \in 1..Len(metadata_cache)}
\* self._metadata_cache[url]
CacheEntry(url) ==
    metadata_cache[CHOOSE i \in 1..Len(metadata_cache) : metadata_cache[i].url = url]
\* del d[key]
Without(c, i) == SubSeq(c, 1, i - 1) \o SubSeq(c, i + 1, Len(c))
\* d[url] = (metadata, t): a known key keeps its place, a new one goes last
Stored(c, url, t) ==
    IF \E i \in 1..Len(c) : c[i].url = url
    THEN [i \in 1..Len(c) |->
            IF c[i].url = url THEN [url |-> url, timestamp |-> t] ELSE c[i]]
    ELSE Append(c, [url |-> url, timestamp |-> t])
\* (mutation: the entry with the latest timestamp is the one evicted)
Newest(c) ==
    CHOOSE i \in 1..Len(c) :
        /\ \A j \in 1..Len(c) : c[j].timestamp <= c[i].timestamp
        /\ \A j \in (i + 1)..Len(c) : c[j].timestamp < c[i].timestamp
\* min(items, key=timestamp): the first entry, in dict order, of least timestamp
Oldest(c) ==
    CHOOSE i \in 1..Len(c) :
        /\ \A j \in 1..Len(c) : c[i].timestamp <= c[j].timestamp
        /\ \A j \in 1..(i - 1) : c[j].timestamp > c[i].timestamp
\* _cache_metadata(url, metadata)
CacheMetadata(url) ==
    /\ url <= n_cached + 1 /\ url <= MaxCached
    /\ n_cached' = IF url > n_cached THEN url ELSE n_cached
    /\ LET c1 == Stored(metadata_cache, url, now)
       IN metadata_cache' = IF Len(c1) > CacheCap
                            THEN Without(c1, Oldest(c1))
                            ELSE c1
    /\ OpReset
    /\ UNCHANGED <<now, ticks, conversations, added, qvars, tvars, vc_kind, svars,
                   mvars, bvars, sentence>>
    /\ CallKeeps
\* (mutation: an entry is still served at the age of the TTL)
FreshAtTtl(timestamp) == now - timestamp <= CacheTtl
\* time.time() - timestamp < self._cache_ttl
Fresh(timestamp) == now - timestamp < CacheTtl
\* _get_cached_metadata(url); what it returns is observed as 1 (the metadata)
\* or 0 (None)
GetCachedMetadata(url) ==
    /\ IF url \in CacheUrls
       THEN IF Fresh(CacheEntry(url).timestamp)
            THEN /\ op' = Returned("cached", url, 1)
                 /\ UNCHANGED metadata_cache
            ELSE /\ op' = Returned("cached", url, 0)
                 /\ metadata_cache' =
                      Without(metadata_cache,
                              CHOOSE i \in 1..Len(metadata_cache) :
                                  metadata_cache[i].url = url)
       ELSE /\ op' = Returned("cached", url, 0)
            /\ UNCHANGED metadata_cache
    /\ UNCHANGED <<now, ticks, n_cached, conversations, added, qvars, tvars, vc_kind,
                   svars, mvars, bvars, sentence>>
    /\ CallKeeps
\* time passes between two calls: time.time() has advanced by d seconds
Tick(d) ==
    /\ ticks < MaxTicks
    /\ ticks' = ticks + 1
    /\ now' = now + d
    /\ OpReset
    /\ UNCHANGED <<metadata_cache, n_cached, conversations, added, qvars, tvars,
                   vc_kind, svars, mvars, bvars, sentence>>
    /\ CallKeeps
\* the URLs the cache is filled with: a new one, or the first one cached
FillUrls ==
    {n_cached + 1} \cup
    (IF metadata_cache = <<>> THEN {} ELSE {metadata_cache[1].url})

\* ------------------------------------------------------------ specification
Init ==
    /\ queue_exists = FALSE
    /\ songs = <<>>
    /\ current_song = None
    /\ is_playing = FALSE
    /\ is_paused = FALSE
    /\ start_time = FALSE
    /\ history = <<>>
    /\ loop_mode = "off"
    /\ resolving = NoTasks
    /\ pending_next = 0
    /\ next_id = 1
    /\ vc = "idle"
    /\ vc_src = NoSource
    /\ enq_first = 0
    /\ enq_clean = FALSE
    /\ play_starts = 0
    /\ rt_step = 0
    /\ rt_a = 0
    /\ rt_b = 0
    /\ fl_m = 0
    /\ fl_n = 0
    /\ lp_orig = <<>>
    /\ lp_n = 0
    /\ sk = "none"
    /\ op = NoOp
    /\ in_order = TRUE
    /\ vc_kind = "none"
    /\ active_guild = FALSE
    /\ is_responding = "absent"
    /\ stop_response = "absent"
    /\ ai_task = 0
    /\ is_capturing = FALSE
    /\ pause_wake_word = FALSE
    /\ ww_listening = FALSE
    /\ n_handlers = 0
    /\ hpc = [h \in Handlers |-> "new"]
    /\ harg = [h \in Handlers |-> 0]
    /\ ai = [h \in Handlers |-> "none"]
    /\ tts = [h \in Handlers |-> "none"]
    /\ squeue = [h \in Handlers |-> <<>>]
    /\ sentence = [h \in Handlers |-> 0]
    /\ full_response = [h \in Handlers |-> 0]
    /\ produced = [h \in Handlers |-> 0]
    /\ chat = <<>>
    /\ g_cut = [h \in Handlers |-> "no"]
    /\ active_guilds = {}
    /\ flag_guilds = {}
    /\ ww_callback = 0
    /\ runs = [g \in Guilds |-> 0]
    /\ last_heard = 0
    /\ last_ran = 0
    /\ response_parts = <<>>
    /\ sentence_buffer = <<>>
    /\ sentences_batch = <<>>
    /\ dispatched = <<>>
    /\ stream_done = FALSE
    /\ conversations = <<>>
    /\ added = [u \in Users |-> <<>>]
    /\ metadata_cache = <<>>
    /\ now = 0
    /\ ticks = 0
    /\ n_cached = 0

Next ==
    \/ Enqueue
    \/ \E n \in 1..2 : EnqueuePlaylist(n)
    \/ \E s \in SongIds, ok \in BOOLEAN : ResolveDone(s, ok)
    \/ SongEnds
    \/ PlayNext
    \/ Skip
    \/ Pause
    \/ Resume
    \/ Previous
    \/ ClearAndStop
    \/ Shuffle
    \/ \E m \in LoopModes : SetLoopMode(m)

Spec == Init /\ [][Next]_vars

\* songs are enqueued one by one, resolve, and play to their end
NextHistory ==
    \/ EnqueueSong(FinishedSongs)
    \/ \E s \in 1..FinishedSongs : ResolveDone(s, TRUE)
    \/ SongEnds
    \/ PlayNextWithin(HistoryCap + 1)

SpecHistory == Init /\ [][NextHistory]_vars

\* the music queue, with the value each call of skip returns observed
NextSkip ==
    \/ SkipCall
    \/ Enqueue
    \/ \E n \in 1..2 : EnqueuePlaylist(n)
    \/ \E s \in SongIds, ok \in BOOLEAN : ResolveDone(s, ok)
    \/ SongEnds
    \/ PlayNext
    \/ Pause
    \/ Resume
    \/ Previous
    \/ ClearAndStop
    \/ Shuffle
    \/ \E m \in LoopModes : SetLoopMode(m)

SpecSkip == Init /\ [][NextSkip]_vars

\* the music queue with the calls of the other operations observed
NextCalls ==
    \/ Enqueue
    \/ \E n \in 1..2 : EnqueuePlaylist(n)
    \/ \E s \in SongIds, ok \in BOOLEAN : ResolveDone(s, ok)
    \/ SongEnds
    \/ PlayNext
    \/ Skip
    \/ PauseCall
    \/ ResumeCall
    \/ PreviousCall
    \/ ClearCall
    \/ ShuffleCall
    \/ \E m \in LoopModes : SetLoopMode(m)
    \/ \E e \in 0..MaxElapsed, d \in 0..MaxDuration : PositionCall(e, d)
SpecCalls == Init /\ [][NextCalls]_vars

\* a recorded return value is dropped before the program goes on (what
\* clear_and_stop returned stays, for the steps of the program that follow it)
OpForget ==
    /\ op.name \notin {"none", "clear"}
    /\ op' = NoOp
    /\ CallKeeps
    /\ UNCHANGED <<sentence, kvars, bvars, mvars, svars, vc_kind, qvars, tvars>>
OpRead == op.name \in {"none", "clear"}

\* the music queue with the calls of previous observed
NextPrevious ==
    \/ /\ OpRead
       /\ \/ Enqueue
          \/ \E n \in 1..2 : EnqueuePlaylist(n)
          \/ \E s \in SongIds, ok \in BOOLEAN : ResolveDone(s, ok)
          \/ SongEnds
          \/ PlayNext
          \/ Skip
          \/ Pause
          \/ Resume
          \/ PreviousCall
          \/ ClearAndStop
          \/ Shuffle
          \/ \E m \in LoopModes : SetLoopMode(m)
    \/ OpForget
SpecPrevious == Init /\ [][NextPrevious]_vars

\* the music queue with the calls of clear_and_stop observed
NextClear ==
    \/ Enqueue
    \/ \E n \in 1..2 : EnqueuePlaylist(n)
    \/ \E s \in SongIds, ok \in BOOLEAN : ResolveDone(s, ok)
    \/ SongEnds
    \/ PlayNext
    \/ Skip
    \/ Pause
    \/ Resume
    \/ Previous
    \/ ClearCall
    \/ Shuffle
    \/ \E m \in LoopModes : SetLoopMode(m)
SpecClear == Init /\ [][NextClear]_vars

\* the music queue with the calls of shuffle_queue observed
NextShuffle ==
    \/ /\ OpRead
       /\ \/ Enqueue
          \/ \E n \in 1..2 : EnqueuePlaylist(n)
          \/ \E s \in SongIds, ok \in BOOLEAN : ResolveDone(s, ok)
          \/ SongEnds
          \/ PlayNext
          \/ Skip
          \/ Pause
          \/ Resume
          \/ Previous
          \/ ClearAndStop
          \/ ShuffleCall
          \/ \E m \in LoopModes : SetLoopMode(m)
    \/ OpForget
SpecShuffle == Init /\ [][NextShuffle]_vars

\* one call of get_response_with_sentence_streaming, on every text of up to
\* MaxText characters cut into chunks in every way
NextBatch ==
    \/ \E c \in Chunks(MaxText) : StreamChunk(c)
    \/ StreamEnd
SpecBatch == Init /\ [][NextBatch]_vars

\* the chat manager, with messages added for two users in any order
NextChat ==
    \/ \E u \in Users : AddUserMessage(u)
    \/ \E u \in Users : AddAssistantMessage(u)
SpecChat == Init /\ [][NextChat]_vars

\* the metadata cache filled past its capacity, the clock advancing in between
NextCache ==
    \/ \E url \in FillUrls : CacheMetadata(url)
    \/ Tick(1)
SpecCache == Init /\ [][NextCache]_vars

\* the metadata cache with a few URLs cached and looked up at every age
NextCached ==
    \/ \E url \in 1..MaxUrls : CacheMetadata(url)
    \/ \E url \in 1..MaxUrls : GetCachedMetadata(url)
    \/ \E d \in {1, CacheTtl - 1} : Tick(d)
SpecCached == Init /\ [][NextCached]_vars

\* the voice-assistant session of one guild
NextVoice ==
    \/ VoiceStart
    \/ VoiceStop
    \/ Detect
    \/ \E h \in Handlers : HIntAwait(h)
    \/ \E h \in Handlers : HIntSleep(h)
    \/ \E h \in Handlers, ok \in BOOLEAN : HBeepTts(h, ok)
    \/ \E h \in Handlers : HBeepWait(h)
    \/ \E h \in Handlers, enough \in BOOLEAN : HCaptureDone(h, enough)
    \/ \E h \in Handlers, heard \in BOOLEAN : HTranscribed(h, heard)
    \/ \E h \in Handlers, ok \in BOOLEAN : HApologyTts(h, ok)
    \/ \E h \in Handlers : AiSentence(h)
    \/ \E h \in Handlers, failed \in BOOLEAN : AiEnd(h, failed)
    \/ \E h \in Handlers : AiCancelled(h)
    \/ \E h \in Handlers : HGenDone(h)
    \/ \E h \in Handlers : HWaitTts(h)
    \/ \E h \in Handlers, ok \in BOOLEAN : HErrTts(h, ok)
    \/ \E h \in Handlers : TtsCheck(h)
    \/ \E h \in Handlers : TtsGet(h)
    \/ \E h \in Handlers : TtsPoll(h)
    \/ \E h \in Handlers, ok \in BOOLEAN : TtsSynthDone(h, ok)
    \/ \E h \in Handlers : TtsTimeout(h)
    \/ SpeechEnds

SpecVoice == Init /\ [][NextVoice]_vars

\* the steps the event loop takes by itself: ready callbacks, sleeps that end,
\* external calls that return, speech that plays to its end
ProgressVoice ==
    \/ \E h \in Handlers : HIntAwait(h)
    \/ \E h \in Handlers : HIntSleep(h)
    \/ \E h \in Handlers, ok \in BOOLEAN : HBeepTts(h, ok)
    \/ \E h \in Handlers : HBeepWait(h)
    \/ \E h \in Handlers, enough \in BOOLEAN : HCaptureDone(h, enough)
    \/ \E h \in Handlers, heard \in BOOLEAN : HTranscribed(h, heard)
    \/ \E h \in Handlers, ok \in BOOLEAN : HApologyTts(h, ok)
    \/ \E h \in Handlers, failed \in BOOLEAN : AiEnd(h, failed)
    \/ \E h \in Handlers : AiCancelled(h)
    \/ \E h \in Handlers : HGenDone(h)
    \/ \E h \in Handlers : HWaitTts(h)
    \/ \E h \in Handlers, ok \in BOOLEAN : HErrTts(h, ok)
    \/ \E h \in Handlers : TtsCheck(h)
    \/ \E h \in Handlers : TtsGet(h)
    \/ \E h \in Handlers : TtsPoll(h)
    \/ \E h \in Handlers, ok \in BOOLEAN : TtsSynthDone(h, ok)
    \/ SpeechEnds

\* the session with its event loop running; the 30 s timeout of tts_player is
\* not relied upon
SpecVoiceLive == SpecVoice /\ WF_vars(ProgressVoice)

\* the same, with the 30 s timeout of sentences_queue.get() firing
SpecVoiceTimed == SpecVoiceLive /\ WF_vars(\E h \in Handlers : TtsTimeout(h))

\* the music queue and the voice assistant of one guild on its voice client
NextShared ==
    \/ Next
    \/ VoiceStart
    \/ VoiceStop
    \/ AssistantSpeaks
    \/ SpeechEnds

SpecShared == Init /\ [][NextShared]_vars

\* the voice assistant started and stopped in several guilds
NextGuilds ==
    \/ \E g \in Guilds : GuildVoiceStart(g)
    \/ \E g \in Guilds : GuildVoiceStop(g)
    \/ \E g \in Guilds : GuildDetect(g)

SpecGuilds == Init /\ [][NextGuilds]_vars

TypeOK ==
    /\ queue_exists \in BOOLEAN
    /\ songs \in Seq(SongIds) /\ Len(songs) <= MaxQueueLen
    /\ current_song \in SongIds \cup {None}
    /\ history \in Seq(SongIds)
    /\ loop_mode \in LoopModes
    /\ pending_next \in 0..MaxPending
    /\ vc \in {"idle", "playing", "paused"}

\* ------------------------------------------------------------ claims
\* C1: whenever every call has returned (no _play_song is suspended),
\* is_playing implies that songs is non-empty and current_song is songs[0].
C1_QueueInvariant ==
    (queue_exists /\ resolving = NoTasks /\ is_playing)
        => (songs # <<>> /\ current_song = songs[1])

\* C2: after a run of Enqueue calls on an idle guild, all resolving their
\* stream and with no end-of-song event, songs[0] is the first enqueued song
\* and _play_song has called the transport's play exactly once.
C2_EnqueuePlaysOnce ==
    /\ enq_clean => (songs # <<>> /\ songs[1] = enq_first /\ play_starts <= 1)
    /\ (enq_clean /\ resolving = NoTasks) => play_starts = 1
C2_Witness ==
    /\ enq_clean /\ resolving = NoTasks
    /\ Len(songs) = 2 /\ songs[1] = enq_first
    /\ play_starts = 1 /\ vc = "playing"

\* C3: from [A,B] with A playing, one end-of-song continuation followed by
\* Previous and the continuation it triggers ends with A current and the
\* queue [A,B].
C3_PreviousRoundTrip ==
    rt_step = 6 => (current_song = rt_a /\ songs = <<rt_a, rt_b>>)

\* C8: whenever the transport plays a song started by _play_song, is_playing
\* is true and that song is current_song and songs[0].
C8_TransportMatchesQueue ==
    (vc = "playing" /\ vc_src.kind = "song")
        => (is_playing /\ songs # <<>> /\ songs[1] = vc_src.id
            /\ current_song = vc_src.id)

\* C4: the response of a run that a wake word interrupted while it was
\* responding is never appended to the conversation history.
C4_InterruptedNotSaved ==
    \A h \in Handlers :
        g_cut[h] \in {"interrupting", "interrupted"}
            => \A i \in 1..Len(chat) : chat[i] # <<"assistant", h>>

\* C5: once an interruption or a `voice stop` has been processed, tts_player
\* calls stream_to_voice_channel for no further batch of that response.
C5_NoDispatchAfterCut ==
    [][\A h \in Handlers :
          (g_cut[h] \in {"interrupted", "stopped"} /\ tts[h] # "synth")
              => tts'[h] # "synth"]_vars

\* C6: at no time are two runs of on_wake_word_detected of the guild both in
\* the capture/transcribe phases.
C6_OneCaptureAtATime ==
    Cardinality({h \in Handlers : hpc[h] \in {"capturing", "transcribing"}}) <= 1

\* C7: while the sink captures, wake-word detection is paused.
C7_CapturePausesWakeWord == is_capturing => pause_wake_word

\* C9: speech playback of the voice assistant never stops the music queue's
\* current song and never fires the queue's end-of-playback continuation.
C9_SpeechLeavesMusicAlone ==
    [][(vc_src' # vc_src /\ vc_src'.kind \in SpeechKinds)
          => (vc_src.kind # "song" /\ pending_next' = pending_next)]_vars

\* C10: a wake word heard in a guild runs that guild's handler, and every
\* guild in which the assistant runs still has its detection listened for.
C10_GuildsIndependent ==
    /\ last_heard # 0 => last_ran = last_heard
    /\ \A g \in active_guilds : ww_listening

\* no run of on_wake_word_detected, no ai_generator and no tts_player of the
\* guild is in flight
NoneInFlight ==
    \A h \in Handlers :
        /\ hpc[h] \in {"new", "done"}
        /\ ai[h] \notin {"running", "cancelling"}
        /\ tts[h] \in {"none", "done"}

\* C11: after `voice stop`, once the runs in flight have ended, the guild has
\* no entry in active_guilds, is_responding, stop_response or ai_task.
C11_StopTearsDown ==
    (~active_guild /\ NoneInFlight)
        => (is_responding = "absent" /\ stop_response = "absent" /\ ai_task = 0)

\* C12: when ai_gen_task is cancelled, the end signal put on the sentence
\* queue lets tts_player end (without its timeout), and the run of
\* on_wake_word_detected goes on to wait for it.
C12_CancelUnblocksPlayer ==
    \A h \in Handlers : (ai[h] = "cancelled") ~> (tts[h] = "done")
C12_Witness ==
    \E h \in Handlers :
        /\ ai[h] = "cancelled" /\ tts[h] = "done" /\ hpc[h] = "done"
        /\ g_cut[h] = "interrupted"

\* C13: every run of on_wake_word_detected ends with is_responding and
\* stop_response false and with wake-word detection not paused.
C13_HandlerEndsListening ==
    [][\A h \in Handlers :
          (hpc[h] # "done" /\ hpc'[h] = "done")
              => (~Get(is_responding') /\ ~Get(stop_response') /\ ~pause_wake_word')]_vars

\* the session listens: no run in flight, no flag set, detection not paused
Listening ==
    /\ \A h \in Handlers : hpc[h] \in {"new", "done"}
    /\ ~Get(is_responding) /\ ~Get(stop_response)
    /\ ~pause_wake_word /\ ~is_capturing
\* once the runs in flight have ended the session listens again
ReturnsToListening ==
    (\E h \in Handlers : hpc[h] \notin {"new", "done"}) ~> Listening

\* C14: whenever _play_next or _play_song leaves the queue empty, the state
\* afterwards has is_playing false and current_song None.
C14_EmptyQueueStops ==
    [][(songs # <<>> /\ songs' = <<>>)
          => (~is_playing' /\ current_song' = None)]_vars

\* C15: playback started on the idle guild with m songs whose resolutions all
\* fail drops one front song per attempt, never touches the history, and after
\* m attempts the queue is empty, is_playing is false and no call is left.
C15_FailuresTerminate ==
    /\ [](fl_m > 0 =>
            /\ fl_n <= fl_m
            /\ Len(songs) = fl_m - fl_n
            /\ TaskCount = (IF fl_n < fl_m THEN 1 ELSE 0)
            /\ fl_n = fl_m => ~is_playing)
    /\ [][(fl_m > 0 /\ fl_n' = fl_n + 1)
             => (history' = history /\ songs' = Tail(songs))]_vars
C15_Witness ==
    /\ fl_m = 2 /\ fl_n = 2 /\ loop_mode = "queue"
    /\ songs = <<>> /\ ~is_playing /\ resolving = NoTasks

\* C16: with one song queued and playing under loop mode Song, after every
\* number of end-of-song continuations the same song is current and
\* len(songs) is 1.
C16_LoopSongRepeats ==
    (lp_orig # <<>> /\ Len(lp_orig) = 1 /\ loop_mode = "song")
        => (songs = lp_orig /\ current_song = lp_orig[1] /\ is_playing)
C16_Witness ==
    /\ Len(lp_orig) = 1 /\ loop_mode = "song" /\ lp_n = MaxLoops
    /\ vc = "playing" /\ vc_src = SongSource(lp_orig[1])

\* the list S with its first n elements moved to the tail, one by one
ShiftedBy(S, n) == [i \in 1..Len(S) |-> S[((i - 1 + n) % Len(S)) + 1]]
\* C17: under loop mode Queue each end-of-song continuation moves the front
\* song to the tail, so that after len(songs) continuations the queue is in its
\* original order with its original front song current.
C17_LoopQueueRotates ==
    (lp_orig # <<>> /\ loop_mode = "queue" /\ resolving = NoTasks /\ pending_next = 0)
        => /\ songs = ShiftedBy(lp_orig, lp_n)
           /\ current_song = songs[1]
           /\ lp_n = Len(lp_orig) => songs = lp_orig
C17_Witness ==
    /\ Len(lp_orig) = 2 /\ lp_orig[1] # lp_orig[2]
    /\ loop_mode = "queue" /\ lp_n = 2
    /\ songs = lp_orig /\ current_song = lp_orig[1]
    /\ vc = "playing" /\ resolving = NoTasks

\* songs that have played to their end when they are enqueued one by one
Finished == next_id - 1 - Len(songs)
\* C18: len(history) never exceeds 10, and the history holds the last (at
\* most 10) finished songs in finishing order.
C18_HistoryKeepsLastTen ==
    /\ Len(history) <= HistoryCap
    /\ LET n == IF Finished < HistoryCap THEN Finished ELSE HistoryCap
       IN /\ Len(history) = n
          /\ \A i \in 1..n : history[i] = Finished - n + i
C18_Witness ==
    /\ Finished = FinishedSongs
    /\ Len(history) = HistoryCap
    /\ history[1] = FinishedSongs - HistoryCap + 1

\* C19: skip on a guild with no queue, an empty queue or is_playing false
\* returns false, changes nothing of the queue and does not stop the transport.
C19_SkipRejected ==
    [][(sk' # sk /\ sk' \in {"true", "false"}
          /\ (~queue_exists \/ songs = <<>> \/ ~is_playing))
          => /\ sk' = "false"
             /\ UNCHANGED <<songs, history, current_song, start_time, is_playing, is_paused,
                            loop_mode, vc, vc_src, pending_next>>]_vars
C19_Witness ==
    /\ sk = "false" /\ queue_exists /\ ~is_playing
    /\ vc = "playing" /\ vc_src.kind = "song"

\* C20: a skip that returns true ends the player as a natural end of the song
\* does, scheduling the same continuation, and that continuation, run on a
\* queue whose front song is current, leaves, per loop mode: Off, the skipped
\* song in the history and the next one current; Queue, the skipped song at
\* the tail; Song, the same song again.
C20_SkipContinuesAsSongEnd ==
    /\ [][(sk' = "true" /\ sk # "true")
             => /\ vc' = "idle" /\ pending_next' = pending_next + 1
                /\ UNCHANGED <<songs, history, current_song, start_time, is_playing, loop_mode>>]_vars
    /\ [][(sk = "true" /\ pending_next = 1 /\ pending_next' = 0
             /\ songs # <<>> /\ current_song = songs[1])
             => CASE loop_mode = "song" ->
                       songs' = songs /\ current_song' = current_song
                       /\ history' = history
                  [] loop_mode = "queue" ->
                       songs' = Tail(songs) \o <<Head(songs)>>
                       /\ current_song' = songs'[1]
                       /\ Last(history') = current_song
                  [] loop_mode = "off" ->
                       songs' = Tail(songs)
                       /\ current_song' = (IF songs' = <<>> THEN None ELSE songs'[1])
                       /\ Last(history') = current_song]_vars
C20_Witness ==
    /\ sk = "true" /\ pending_next = 1 /\ vc = "idle"
    /\ is_playing /\ Len(songs) = 2 /\ current_song = songs[1]

\* C21: pause returns True, sets is_paused and pauses the transport exactly when
\* a song is playing (the queue is playing and the transport plays a song, so it
\* is not paused); resume returns True, clears is_paused and resumes the
\* transport exactly when a song is paused (the transport is paused); a call
\* that returns False changes neither is_paused nor the transport.
SongPlays == queue_exists /\ is_playing /\ vc = "playing" /\ vc_src.kind = "song"
SongPaused == queue_exists /\ is_playing /\ vc = "paused" /\ vc_src.kind = "song"
C21_PauseResumeExact ==
    [][/\ (op' # op /\ op'.name = "pause") =>
             /\ (op'.ret = 1) <=> SongPlays
             /\ (op'.ret = 1) => (is_paused' /\ vc' = "paused" /\ vc_src' = vc_src)
             /\ (op'.ret = 0) => UNCHANGED <<is_paused, vc, vc_src>>
       /\ (op' # op /\ op'.name = "resume") =>
             /\ (op'.ret = 1) <=> SongPaused
             /\ (op'.ret = 1) => (~is_paused' /\ vc' = "playing" /\ vc_src' = vc_src)
             /\ (op'.ret = 0) => UNCHANGED <<is_paused, vc, vc_src>>]_vars

\* C22: a call of previous on a guild with no queue or with an empty history
\* returns False and leaves songs, history, current_song and the transport
\* (with the continuations it has scheduled and the suspended _play_song
\* calls) as they were.
C22_PreviousRejected ==
    [][(op' # op /\ op'.name = "previous" /\ (~queue_exists \/ history = <<>>)) =>
          /\ op'.ret = 0
          /\ UNCHANGED <<songs, history, current_song, is_playing, is_paused,
                         vc, vc_src, pending_next, resolving>>]_vars
\* previous was refused while a song was playing
C22_Witness ==
    /\ op = Returned("previous", 0, 0)
    /\ history = <<>>
    /\ is_playing /\ vc = "playing" /\ vc_src.kind = "song"

\* C23: clear_and_stop returns the number of songs that were in the list (0
\* without a queue) and leaves songs empty, is_playing False, is_paused False
\* and current_song None; the _play_next that stopping the transport schedules
\* starts no _play_song and no playback, and the guild keeps these values
\* through every step of the program until the next operation is called.
Cleared ==
    /\ songs = <<>>
    /\ ~is_playing
    /\ ~is_paused
    /\ current_song = None
Count(S, x) == Cardinality({i \in DOMAIN S : S[i] = x})
C24_ShuffleKeepsFront ==
    [][(op' # op /\ op'.name = "shuffle") =>
          /\ IF ~queue_exists \/ Len(songs) <= 1
             THEN op'.ret = 0 /\ songs' = songs
             ELSE /\ op'.ret = 1
                  /\ Len(songs') = Len(songs)
                  /\ songs'[1] = songs[1]
                  /\ \A x \in AllSongIds : Count(songs', x) = Count(songs, x)
          /\ UNCHANGED <<history, current_song, is_playing, is_paused, loop_mode>>]_vars
\* a list of three songs was shuffled behind its first song
C24_Witness ==
    /\ op = Returned("shuffle", 0, 1)
    /\ Len(songs) = 3
    /\ songs[2] # songs[3]

\* C25: songs are numbered in the order they are enqueued (a playlist in its
\* own order). While loop mode is Off, no shuffle, previous or clear_and_stop
\* has been called and every stream resolution has succeeded: the list holds
\* the songs not yet finished in enqueue order with the current song at its
\* front, a song leaves the list only from the front after it was current,
\* and each song that becomes current is the one enqueued right after the
\* last one that was current.
C25_EnqueueOrderIsPlayOrder ==
    /\ [](in_order =>
            /\ songs = [i \in 1..Len(songs) |-> next_id - Len(songs) + i - 1]
            /\ current_song # None => (songs # <<>> /\ current_song = songs[1]))
    /\ [][in_order' =>
            /\ songs' # songs =>
                  \/ /\ Len(songs') > Len(songs)
                     /\ SubSeq(songs', 1, Len(songs)) = songs
                  \/ /\ songs # <<>>
                     /\ songs' = Tail(songs)
                     /\ current_song = Head(songs)
            /\ (current_song' # current_song /\ current_song' # None) =>
                  current_song' = next_id - Len(songs) + (IF current_song = None THEN 0 ELSE 1)]_vars
\* song 1 was played to its end and song 2, enqueued after it, is playing
C25_Witness ==
    /\ in_order
    /\ history = <<1>>
    /\ current_song = 2
    /\ vc = "playing" /\ vc_src = SongSource(2)

\* C26: every value get_current_position returns lies between 0 and the
\* duration of the current song, and it is 0 whenever the guild is paused or
\* is_playing is False.
C26_PositionInRange ==
    op.name = "position" =>
        /\ 0 <= op.ret /\ op.ret <= op.arg
        /\ (is_paused \/ ~is_playing) => op.ret = 0

\* C27: when the call has returned, every batch passed to on_sentence is
\* non-empty, and the batches put one after the other in the order of the calls
\* are, whitespace left out, the streamed text with whitespace left out.
RECURSIVE Squash(_)
Squash(t) ==
    IF t = <<>> THEN <<>>
    ELSE IF Head(t) = " " THEN Squash(Tail(t)) ELSE <<Head(t)>> \o Squash(Tail(t))
RECURSIVE Concat(_)
Concat(l) == IF l = <<>> THEN <<>> ELSE Head(l) \o Concat(Tail(l))
C27_BatchesKeepText ==
    stream_done =>
        /\ \A i \in DOMAIN dispatched : Squash(dispatched[i]) # <<>>
        /\ Squash(Concat(dispatched)) = Squash(response_parts)
\* a text of two sentences and a rest: one batch over the target, one short
C27_Witness ==
    /\ stream_done
    /\ Len(dispatched) = 2
    /\ StrLen(dispatched[1]) >= TargetBatchLength
    /\ \E i \in DOMAIN dispatched[1] : dispatched[1][i] = "!"
    /\ \E i \in DOMAIN dispatched[1] : dispatched[1][i] = "."

\* C28: when the call has returned, every batch passed to on_sentence but the
\* last one is at least TargetBatchLength characters long.
C28_OnlyLastBatchShort ==
    stream_done =>
        \A i \in 1..(Len(dispatched) - 1) : StrLen(dispatched[i]) >= TargetBatchLength

\* C29: in a response that is not interrupted, tts_player takes the batches in
\* the order on_sentence queued them (batch 1, then batch 2, ...), and whenever
\* it starts a batch on the transport, the transport is not playing an earlier
\* batch of the same response.
C29_BatchesInOrderUncut ==
    [][\A h \in Handlers :
          /\ (sentence'[h] # sentence[h] /\ sentence'[h] # 0 /\ g_cut'[h] = "no") =>
                sentence'[h] = sentence[h] + 1
          /\ (tts[h] = "synth" /\ tts'[h] = "check" /\ vc_src' = SpeechSource("resp", h)
              /\ g_cut'[h] = "no") =>
                ~(vc = "playing" /\ vc_src = SpeechSource("resp", h))]_vars
\* the second batch of an uninterrupted response is playing
C29_Witness ==
    \E h \in Handlers :
        /\ g_cut[h] = "no"
        /\ sentence[h] = 2
        /\ tts[h] = "check"
        /\ vc = "playing" /\ vc_src = SpeechSource("resp", h)

\* what a run does when too little audio was captured or nothing was
\* transcribed: it calls stream_to_voice_channel with the apology once and
\* returns; it starts no ai_generator and no tts_player and leaves
\* is_responding, ai_task and the conversation history alone
ApologyOnly(h) ==
    /\ (hpc[h] \in {"capturing", "transcribing"} /\ hpc'[h] = "apology_tts") =>
          UNCHANGED <<is_responding, ai_task, chat, ai, tts>>
    /\ (hpc[h] = "apology_tts" /\ hpc'[h] # "apology_tts") =>
          /\ hpc'[h] = "done"
          /\ ai[h] = "none" /\ tts[h] = "none"
          /\ UNCHANGED <<is_responding, ai_task, chat, ai, tts>>
          /\ vc_src' = SpeechSource("apology", h) \/ UNCHANGED <<vc, vc_src>>
ApologyPathAlone == [][\A h \in Handlers : ApologyOnly(h)]_vars
\* C30: a run that captured less than 100 bytes, or whose transcription
\* returned no text, dispatches the apology once, starts no LLM call, does not
\* modify the conversation history, never sets is_responding, and when it ends
\* wake-word detection is not paused.
C30_ApologyPath ==
    [][\A h \in Handlers :
          /\ ApologyOnly(h)
          /\ (hpc[h] = "apology_tts" /\ hpc'[h] = "done") => ~pause_wake_word']_vars

\* what a run does when its LLM call has failed with the stop flag not set:
\* with the flag still not set when the failure reaches the handler it calls
\* stream_to_voice_channel with the error apology once, and in both cases it
\* appends no assistant message and ends with is_responding and stop_response
\* reset
FailureHandled(h) ==
    /\ (hpc[h] = "gen" /\ hpc'[h] # "gen" /\ ai[h] = "failed") =>
          /\ chat' = chat
          /\ IF ~Get(stop_response)
             THEN hpc'[h] = "err_tts"
             ELSE /\ hpc'[h] = "done"
                  /\ ~Get(is_responding') /\ ~Get(stop_response')
                  /\ UNCHANGED <<vc, vc_src>>
    /\ (hpc[h] = "err_tts" /\ hpc'[h] # "err_tts") =>
          /\ hpc'[h] = "done"
          /\ chat' = chat
          /\ ~Get(is_responding') /\ ~Get(stop_response')
          /\ vc_src' = SpeechSource("apology", h) \/ UNCHANGED <<vc, vc_src>>
FailureHandledAlone == [][\A h \in Handlers : FailureHandled(h)]_vars
\* C31: a run whose LLM call failed with the stop flag not set speaks the
\* error apology once, appends no assistant message and ends with
\* is_responding and stop_response reset; no error apology starts to play
\* while the session is interrupted (stop_response set).
C31_FailureApology ==
    [][\A h \in Handlers :
          /\ FailureHandled(h)
          /\ (hpc[h] = "err_tts" /\ vc_src' = SpeechSource("apology", h) /\ vc_src' # vc_src)
                => ~Get(stop_response)]_vars

\* the last k elements of a sequence
LastOf(q, k) == SubSeq(q, Len(q) - k + 1, Len(q))
RingBuffer ==
    \A u \in Users :
        /\ Len(GetConversation(u)) <= 10
        /\ GetConversation(u) = LastOf(added[u], Min(Len(added[u]), 10))
        /\ Len(added[u]) >= 11 => added[u][1] # GetConversation(u)[1]
OthersKept ==
    \A u \in Users :
        added'[u] # added[u] =>
            \A v \in Users \ {u} :
                /\ v \in DOMAIN conversations' <=> v \in DOMAIN conversations
                /\ v \in DOMAIN conversations => conversations'[v] = conversations[v]
\* C32: a user's history holds at most 10 messages, the most recent
\* min(n, 10) of the n added for that user in the order they were added (the
\* first one is gone after 11), and a message added for one user leaves the
\* history of every other user as it was.
C32_RingBufferPerUser == []RingBuffer /\ [][OthersKept]_vars
\* a user with 11 messages added whose history starts at the second one,
\* next to another user who has a history too
C32_Witness ==
    \E u \in Users :
        /\ Len(added[u]) = 11
        /\ conversations[u][1] = added[u][2]
        /\ \E v \in Users \ {u} : Len(GetConversation(v)) = 1

\* C33: skip returns False only if nothing was playing: a call of skip on a
\* guild whose queue has is_playing = True (the transport streaming, paused,
\* or the stream of the current song still being resolved) returns True.
C33_SkipFalseOnlyWhenIdle ==
    sk = "false" => ~(queue_exists /\ is_playing)

\* C34: is_paused mirrors the transport: in every reachable state is_paused
\* is True exactly when the guild's transport is paused.
C34_PausedFlagMirrorsTransport == is_paused <=> VcIsPaused

\* C35: while a run is between setting is_responding and its own finally
\* block, with its response not interrupted or stopped, is_responding stays
\* True and ai_task refers to that run's generation task: the finally block of
\* an earlier, interrupted run leaves the flag and the task reference of the
\* newer response as they are.
C35_LateFinallyHarmless ==
    [][\A h, e \in Handlers :
          (/\ e # h
           /\ Responding(h) /\ g_cut[h] = "no" /\ Get(is_responding) /\ ai_task = h
           /\ g_cut[e] = "interrupted" /\ hpc[e] # "done" /\ hpc'[e] = "done")
          => (Get(is_responding') /\ ai_task' = h)]_vars

\* C36: an end-of-song continuation (_play_next) on a queue with a current
\* song appends that song to history under loop mode Off and leaves history
\* unchanged under loop modes Queue and Song.
C36_HistoryOnlyWhenNotLooping ==
    [][(pending_next' = pending_next - 1 /\ queue_exists
          /\ songs # <<>> /\ current_song # None) =>
          IF loop_mode = "off"
          THEN /\ history' # <<>>
               /\ Last(history') = current_song
               /\ Len(history') = Min(Len(history) + 1, 10)
          ELSE history' = history]_vars

\* C37: the user's conversation history never holds two consecutive messages
\* with the same role: when a user message is stored on top of the message of
\* a run that has ended, that message is the run's assistant reply, also when
\* the run's LLM call failed or its response was interrupted.
C37_ReplyBeforeNextUserMessage ==
    [][\A h \in Handlers :
          (/\ chat # <<>> /\ chat' = Append(chat, <<"user", h>>)
           /\ hpc[Last(chat)[2]] = "done")
          => Last(chat)[1] = "assistant"]_vars

Timestamps(c) == {c[i].timestamp : i \in 1..Len(c)}
\* a step of _cache_metadata with a URL not cached before, on a full cache
Evicts ==
    /\ Len(metadata_cache) = 100
    /\ n_cached' = n_cached + 1
EvictsOldest ==
    Evicts =>
        \E i \in 1..100 :
            /\ \A t \in Timestamps(metadata_cache) : metadata_cache[i].timestamp <= t
            /\ metadata_cache' =
                  Append(Without(metadata_cache, i),
                         [url |-> n_cached', timestamp |-> now])
\* C38: the metadata cache holds at most 100 entries, and an insert that
\* makes it exceed 100 evicts an entry with the oldest timestamp, never the
\* entry just inserted.
C38_CacheBounded == [](Len(metadata_cache) <= 100) /\ [][EvictsOldest]_vars
\* a 101st URL was cached with the first URL re-cached later than the second:
\* the second URL was evicted, the first is still there
C38_Witness ==
    /\ n_cached = 101
    /\ Len(metadata_cache) = 100
    /\ metadata_cache[1].url = 1
    /\ metadata_cache[2].url = 3
    /\ Last(metadata_cache).url = 101

\* C39: _get_cached_metadata returns an entry only if its age is less than
\* 3600 s and then leaves the cache unchanged; at an age of 3600 s or more it
\* returns None and removes the entry; for a URL that is not cached it returns
\* None and leaves the cache unchanged.
C39_CachedOnlyWhileFresh ==
    [][\A url \in 1..MaxUrls :
          (op' # op /\ op'.name = "cached" /\ op'.arg = url) =>
              IF \E i \in 1..Len(metadata_cache) : metadata_cache[i].url = url
              THEN LET i == CHOOSE j \in 1..Len(metadata_cache) :
                                 metadata_cache[j].url = url
                   IN IF now - metadata_cache[i].timestamp < 3600
                      THEN op'.ret = 1 /\ metadata_cache' = metadata_cache
                      ELSE /\ op'.ret = 0
                           /\ metadata_cache' = Without(metadata_cache, i)
              ELSE op'.ret = 0 /\ metadata_cache' = metadata_cache]_vars
\* an entry looked up at the age of exactly 3600 s: None, and it is gone
C39_Witness ==
    /\ op = Returned("cached", 1, 0)
    /\ now = 3600
    /\ 1 \notin CacheUrls
    /\ n_cached >= 1
====
